---------------------------- MODULE Spec2Model ----------------------------
(***************************************************************************)
(* G-DEX backend (src/server.js): the /quote and /swap handlers, the       *)
(* aggregator call, the optional JSON-RPC gas and fee augmentation.        *)
(*                                                                         *)
(* JavaScript values are records [t, v, n]: t is the typeof tag            *)
(* ("undefined", "null", "string", "number"), v is String(value) and n is  *)
(* the numeric value of a number in units of 1/100000 (0 for the others).  *)
(* JSON objects are records tagged t = "object".  A BigInt is a record     *)
(* [neg, mag] with mag its base-16 digits, most significant first, without *)
(* leading zeros (zero is <<0>>).                                          *)
(***************************************************************************)
EXTENDS Integers, Sequences, FiniteSets, TLC

(* ------------------------- JavaScript values -------------------------- *)

Undef == [t |-> "undefined", v |-> "undefined", n |-> 0]
Null == [t |-> "null", v |-> "null", n |-> 0]
Str(s) == [t |-> "string", v |-> s, n |-> 0]
Num(s, k) == [t |-> "number", v |-> s, n |-> k]

\* x == null
IsNullish(x) == x.t \in {"undefined", "null"}

\* !x
Falsy(x) ==
  CASE x.t \in {"undefined", "null"} -> TRUE
    [] x.t = "string" -> x.v = ""
    [] x.t = "number" -> x.n = 0
    [] OTHER -> FALSE

\* String(x)
String(x) == x.v

CharAt(s, i) == SubSeq(s, i, i)

startsWith(s, p) == Len(s) >= Len(p) /\ SubSeq(s, 1, Len(p)) = p

LowerHex == "0123456789abcdef"
UpperHex == "0123456789ABCDEF"

IsDecChar(c) == \E d \in 0..9 : c = CharAt(LowerHex, d + 1)

IsHexChar(c) ==
  \E d \in 0..15 : c = CharAt(LowerHex, d + 1) \/ c = CharAt(UpperHex, d + 1)

HexValue(c) ==
  CHOOSE d \in 0..15 : c = CharAt(LowerHex, d + 1) \/ c = CharAt(UpperHex, d + 1)

\* /^[0-9]+$/
IsDecString(s) == Len(s) > 0 /\ \A i \in 1..Len(s) : IsDecChar(CharAt(s, i))

\* /^[a-fA-F0-9]+$/
IsHexString(s) == Len(s) > 0 /\ \A i \in 1..Len(s) : IsHexChar(CharAt(s, i))

UpperLetters == "ABCDEFGHIJKLMNOPQRSTUVWXYZ"
LowerLetters == "abcdefghijklmnopqrstuvwxyz"

\* c.toLowerCase() for a character of ASCII
LowerChar(c) ==
  IF \E k \in 1..26 : c = CharAt(UpperLetters, k)
  THEN CharAt(LowerLetters, CHOOSE k \in 1..26 : c = CharAt(UpperLetters, k))
  ELSE c

RECURSIVE LowerRange(_, _, _)
LowerRange(s, lo, hi) ==
  IF lo > hi THEN ""
  ELSE IF lo = hi THEN LowerChar(CharAt(s, lo))
  ELSE LowerRange(s, lo, (lo + hi) \div 2) \o LowerRange(s, (lo + hi) \div 2 + 1, hi)

\* s.toLowerCase()
toLowerCase(s) == LowerRange(s, 1, Len(s))

(* ------------------------------ BigInt -------------------------------- *)
(* Digit arithmetic on magnitudes.  The serial operations (carry, borrow,  *)
(* remainder) split their range in halves, so that the depth of evaluation *)
(* grows with the logarithm of the number of digits.  An intermediate       *)
(* result that is used more than once is bound by a set constructor        *)
(* ({e(x) : x \in {v}}), which makes it a value: a LET definition is        *)
(* evaluated again at each use when TLC evaluates ENABLED.                  *)

\* the element of a set of one element
The(S) == CHOOSE x \in S : TRUE

Reverse(ds) == The({[i \in 1..Len(d) |-> d[Len(d) + 1 - i]] : d \in {ds}})

StripZeros(ds) ==
  The({The({IF nz = {} THEN <<0>>
            ELSE SubSeq(d, CHOOSE i \in nz : \A j \in nz : i <= j, Len(d)) :
            nz \in {{i \in 1..Len(d) : d[i] # 0}}}) :
       d \in {ds}})

\* the digits of a carry, least significant first
CarryDigits(c, base) ==
  IF c = 0 THEN <<>>
  ELSE IF c < base THEN <<c>>
  ELSE <<c % base, c \div base>>

\* ds[lo..hi] * m + carry on least-significant-first digits of the given base
RECURSIVE MulAddRange(_, _, _, _, _, _)
MulAddRange(ds, lo, hi, m, carry, base) ==
  IF lo > hi THEN [out |-> <<>>, carry |-> carry]
  ELSE IF lo = hi
  THEN The({[out |-> <<v % base>>, carry |-> v \div base] :
              v \in {ds[lo] * m + carry}})
  ELSE LET mid == (lo + hi) \div 2
       IN The(UNION {{[out |-> L.out \o R.out, carry |-> R.carry] :
                        R \in {MulAddRange(ds, mid + 1, hi, m, L.carry, base)}} :
                     L \in {MulAddRange(ds, lo, mid, m, carry, base)}})

\* ds * m + a on most-significant-first digits
MulAdd(ds, m, a, base) ==
  The({StripZeros(Reverse(r.out \o CarryDigits(r.carry, base))) :
         r \in {MulAddRange(rev, 1, Len(rev), m, a, base) : rev \in {Reverse(ds)}}})

\* the digits, in base `to', of the number whose base-`from' digits are ds
RECURSIVE ConvertRange(_, _, _, _, _, _)
ConvertRange(ds, lo, hi, acc, from, to) ==
  IF lo > hi THEN acc
  ELSE IF lo = hi THEN MulAdd(acc, from, ds[lo], to)
  ELSE LET mid == (lo + hi) \div 2
       IN The({ConvertRange(ds, mid + 1, hi, left, from, to) :
                 left \in {ConvertRange(ds, lo, mid, acc, from, to)}})

Convert(ds, from, to) ==
  The({ConvertRange(d, 1, Len(d), <<0>>, from, to) : d \in {ds}})

Digit(ds, i) == IF i <= Len(ds) THEN ds[i] ELSE 0

\* a[lo..hi] + b[lo..hi] + carry, least significant first, base 16
RECURSIVE AddRange(_, _, _, _, _)
AddRange(a, b, lo, hi, carry) ==
  IF lo > hi THEN [out |-> <<>>, carry |-> carry]
  ELSE IF lo = hi
  THEN The({[out |-> <<v % 16>>, carry |-> v \div 16] :
              v \in {Digit(a, lo) + Digit(b, lo) + carry}})
  ELSE LET mid == (lo + hi) \div 2
       IN The(UNION {{[out |-> L.out \o R.out, carry |-> R.carry] :
                        R \in {AddRange(a, b, mid + 1, hi, L.carry)}} :
                     L \in {AddRange(a, b, lo, mid, carry)}})

MagAdd(a, b) ==
  The({StripZeros(Reverse(r.out \o CarryDigits(r.carry, 16))) :
         r \in {AddRange(x, y, 1, IF Len(x) > Len(y) THEN Len(x) ELSE Len(y), 0) :
                  x \in {Reverse(a)}, y \in {Reverse(b)}}})

\* a[lo..hi] - b[lo..hi] - borrow, least significant first, base 16
RECURSIVE SubRange(_, _, _, _, _)
SubRange(a, b, lo, hi, borrow) ==
  IF lo > hi THEN [out |-> <<>>, borrow |-> borrow]
  ELSE IF lo = hi
  THEN The({[out |-> <<(v + 16) % 16>>, borrow |-> IF v < 0 THEN 1 ELSE 0] :
              v \in {Digit(a, lo) - Digit(b, lo) - borrow}})
  ELSE LET mid == (lo + hi) \div 2
       IN The(UNION {{[out |-> L.out \o R.out, borrow |-> R.borrow] :
                        R \in {SubRange(a, b, mid + 1, hi, L.borrow)}} :
                     L \in {SubRange(a, b, lo, mid, borrow)}})

\* a - b for a >= b
MagSub(a, b) ==
  The({StripZeros(Reverse(SubRange(x, y, 1, Len(x), 0).out)) :
         x \in {Reverse(a)}, y \in {Reverse(b)}})

MagLess(a, b) ==
  \/ Len(a) < Len(b)
  \/ /\ Len(a) = Len(b)
     /\ \E i \in 1..Len(a) : a[i] < b[i] /\ \A j \in 1..(i - 1) : a[j] = b[j]

\* long division of ds[lo..hi] by a small divisor, most significant first
RECURSIVE DivRange(_, _, _, _, _)
DivRange(ds, lo, hi, k, rem) ==
  IF lo > hi THEN [out |-> <<>>, rem |-> rem]
  ELSE IF lo = hi
  THEN The({[out |-> <<cur \div k>>, rem |-> cur % k] :
              cur \in {rem * 16 + ds[lo]}})
  ELSE LET mid == (lo + hi) \div 2
       IN The(UNION {{[out |-> L.out \o R.out, rem |-> R.rem] :
                        R \in {DivRange(ds, mid + 1, hi, k, L.rem)}} :
                     L \in {DivRange(ds, lo, mid, k, rem)}})

\* floor(a / k)
MagDiv(a, k) == The({StripZeros(DivRange(x, 1, Len(x), k, 0).out) : x \in {a}})

BigZero == [neg |-> FALSE, mag |-> <<0>>]
Big(neg, mag) == The({[neg |-> neg /\ m # <<0>>, mag |-> m] : m \in {mag}})

StrDigits(s) == The({[i \in 1..Len(t) |-> HexValue(CharAt(t, i))] : t \in {s}})

\* BigInt(string): StringToBigInt; ok = FALSE is the SyntaxError
ParseBigInt(s) ==
  CASE s = "" -> [ok |-> TRUE, val |-> BigZero]
    [] startsWith(s, "0x") \/ startsWith(s, "0X") ->
         LET body == SubSeq(s, 3, Len(s))
         IN IF IsHexString(body)
            THEN [ok |-> TRUE, val |-> Big(FALSE, StripZeros(StrDigits(body)))]
            ELSE [ok |-> FALSE, val |-> BigZero]
    [] IsDecString(s) ->
         [ok |-> TRUE, val |-> Big(FALSE, Convert(StrDigits(s), 10, 16))]
    [] (startsWith(s, "-") \/ startsWith(s, "+")) /\ IsDecString(SubSeq(s, 2, Len(s))) ->
         [ok |-> TRUE,
          val |-> Big(startsWith(s, "-"), Convert(StrDigits(SubSeq(s, 2, Len(s))), 10, 16))]
    [] OTHER -> [ok |-> FALSE, val |-> BigZero]

\* BigInt(x) for a JSON value: a string is parsed, an integral number is
\* converted, anything else throws
BigIntOf(x) ==
  CASE x.t = "string" -> ParseBigInt(x.v)
    [] x.t = "number" /\ IsDecString(x.v) -> ParseBigInt(x.v)
    [] OTHER -> [ok |-> FALSE, val |-> BigZero]

RECURSIVE DigitsRange(_, _, _)
DigitsRange(ds, lo, hi) ==
  IF lo > hi THEN ""
  ELSE IF lo = hi THEN CharAt(LowerHex, ds[lo] + 1)
  ELSE LET mid == (lo + hi) \div 2
       IN DigitsRange(ds, lo, mid) \o DigitsRange(ds, mid + 1, hi)

DigitsToString(ds) == The({DigitsRange(d, 1, Len(d)) : d \in {ds}})

\* n.toString(16)
toString16(n) ==
  The({(IF x.neg THEN "-" ELSE "") \o DigitsToString(x.mag) : x \in {n}})

toHex(nBigInt) == "0x" \o toString16(nBigInt)

bnFromHex(hex) == BigIntOf(hex)

\* a + b
BigAdd(a, b) ==
  The({IF x.neg = y.neg THEN Big(x.neg, MagAdd(x.mag, y.mag))
       ELSE IF MagLess(x.mag, y.mag) THEN Big(y.neg, MagSub(y.mag, x.mag))
       ELSE Big(x.neg, MagSub(x.mag, y.mag)) :
       x \in {a}, y \in {b}})

\* a * k and a / k for a small positive k (BigInt division truncates)
BigMul(a, k) == The({Big(x.neg, MulAdd(x.mag, k, 0, 16)) : x \in {a}})
BigDiv(a, k) == The({Big(x.neg, MagDiv(x.mag, k)) : x \in {a}})

(* ------------------------- ENV & CONST, helpers ----------------------- *)

ETH_SENTINEL == Str("0xEeeeeEeeeEeEeeEeEeEeeEEEeeeeEeeeeeeeEEeE")
FEE_RECIPIENT == Str("0x932bf0a8746c041c00131640123fa6c847835d6f")
\* 0.001, in units of 1/100000
FEE_PERCENTAGE == Num("0.001", 100)

isHexAddress(a) ==
  /\ a.t = "string"
  /\ Len(a.v) = 42
  /\ startsWith(a.v, "0x")
  /\ IsHexString(SubSeq(a.v, 3, 42))

mustBeUintString(x) == x.t = "string" /\ IsDecString(x.v)

\* n is a JavaScript number, min and max are in units of 1/100000
\* no upper limit
clampNumberFromBelow(n, min, max) ==
  IF n.v = "NaN" THEN min
  ELSE IF n.n > min THEN n.n ELSE min

clampNumber(n, min, max) ==
  IF n.v = "NaN" THEN min
  ELSE LET lower == IF n.n > min THEN n.n ELSE min
       IN IF lower < max THEN lower ELSE max

RECURSIVE NatToString(_)
NatToString(k) ==
  IF k < 10 THEN CharAt(LowerHex, k + 1)
  ELSE NatToString(k \div 10) \o CharAt(LowerHex, (k % 10) + 1)

\* the query parameters; a parameter that is not set is Undef
buildParams(body) ==
  LET chainId == IF Falsy(body.chainId) THEN Num("1", 100000) ELSE body.chainId
      slip == IF body.slippagePercentage.t = "number"
              THEN body.slippagePercentage ELSE Num("0.02", 2000)
      safeSlip == clampNumber(slip, 0, 20000)
      \* Math.round(safeSlip * 10000), for a fraction that is not half-way
      \* between two basis points
      slippageBps == (safeSlip + 5) \div 10
      fee == ~Falsy(FEE_RECIPIENT) /\ FEE_PERCENTAGE.n > 0
  IN [chainId |-> Str(String(chainId)),
      sellToken |-> Str(String(body.sellToken)),
      buyToken |-> Str(String(body.buyToken)),
      sellAmount |-> Str(String(body.sellAmount)),
      slippageBps |-> Str(NatToString(slippageBps)),
      taker |-> IF Falsy(body.taker) THEN Undef ELSE Str(String(body.taker)),
      feeRecipient |-> IF fee THEN Str(String(FEE_RECIPIENT)) ELSE Undef,
      buyTokenPercentageFee |-> IF fee THEN Str(String(FEE_PERCENTAGE)) ELSE Undef,
      intentOnFilling |-> Undef]

\* the decimal digits taken for hex digits
decStringToHexKeepsDigits(decStr) ==
  "0x" \o (IF decStr = "" THEN "0" ELSE decStr)

decStringToHex(decStr) ==
  The({IF n.ok THEN toHex(n.val) ELSE "0x0" :
         n \in {ParseBigInt(IF decStr = "" THEN "0" ELSE decStr)}})

\* a decimal gas handed on as it came
normalizeGasFieldKeepsDecimal(g) ==
  IF IsNullish(g) THEN Null
  ELSE LET s == String(g)
       IN IF startsWith(s, "0x") \/ IsDecString(s) THEN Str(s) ELSE Null

normalizeGasField(g) ==
  IF IsNullish(g) THEN Null
  ELSE LET s == String(g)
       IN IF startsWith(s, "0x") THEN Str(s)
          ELSE IF IsDecString(s) THEN Str(toHex(ParseBigInt(s).val))
          ELSE Null

(* --------------------------- aggregator call -------------------------- *)

EmptyObject ==
  [t |-> "object", message |-> Undef, raw |-> Undef, buyAmount |-> Undef,
   transaction |-> Undef]

\* JSON.parse of the reply text, {} for an empty text, {raw: text} otherwise
ParseText(text) ==
  CASE text.form = "empty" -> EmptyObject
    [] text.form = "json" -> text.json
    [] OTHER -> [EmptyObject EXCEPT !.raw = Str(text.raw)]

\* The outcome of call0x for one reply of the aggregator: the parsed data, or
\* the error thrown (status 0 stands for an error without a status property,
\* details Undef for one without details).
call0x(reply) ==
  IF reply.kind = "neterr"
  THEN [threw |-> TRUE, message |-> reply.message, status |-> 0,
        details |-> Undef, data |-> EmptyObject]
  ELSE LET data == ParseText(reply.text)
           ok == reply.status >= 200 /\ reply.status <= 299
       IN IF ~ok
          THEN [threw |-> TRUE,
                message |-> IF Falsy(data.message)
                            THEN "0x request failed: " \o NatToString(reply.status)
                            ELSE String(data.message),
                status |-> reply.status, details |-> data, data |-> EmptyObject]
          ELSE [threw |-> FALSE, message |-> "", status |-> 0,
                details |-> Undef, data |-> data]

(* ------------------------------ JSON-RPC ------------------------------ *)

\* The outcome of rpc for one reply of the node: a reply is a result, a JSON-RPC
\* error, or a failure of the transport.
rpc(reply) ==
  IF reply.kind = "result"
  THEN [threw |-> FALSE, result |-> reply.result]
  ELSE [threw |-> TRUE, result |-> Undef]

\* 1500000000n
TipFallback == ParseBigInt("1500000000").val

\* suggestEip1559Fees up to its second call: the base fee of the block, or the
\* exception that ends the fee suggestion
suggestBaseFee(reply) ==
  LET res == rpc(reply)
      block == res.result
  IN IF res.threw THEN [threw |-> TRUE, baseFee |-> BigZero]
     ELSE IF Falsy(block) THEN [threw |-> FALSE, baseFee |-> BigZero]
     ELSE IF Falsy(block.baseFeePerGas) THEN [threw |-> FALSE, baseFee |-> BigZero]
     ELSE LET n == bnFromHex(block.baseFeePerGas)
          IN [threw |-> ~n.ok, baseFee |-> n.val]

\* the base fee counted once
suggestFeesBasePlusTip(baseFee, reply) ==
  LET res == rpc(reply)
      parsed == bnFromHex(res.result)
      tip == IF res.threw \/ ~parsed.ok THEN TipFallback ELSE parsed.val
      maxFee == BigAdd(baseFee, tip)
  IN [maxPriorityFeePerGas |-> Str(toHex(tip)), maxFeePerGas |-> Str(toHex(maxFee))]

\* suggestEip1559Fees from the reply to eth_maxPriorityFeePerGas on
suggestFees(baseFee, reply) ==
  LET res == rpc(reply)
      parsed == bnFromHex(res.result)
      tip == IF res.threw \/ ~parsed.ok THEN TipFallback ELSE parsed.val
      maxFee == BigAdd(BigMul(baseFee, 2), tip)
  IN [maxPriorityFeePerGas |-> Str(toHex(tip)), maxFeePerGas |-> Str(toHex(maxFee))]

\* the estimate handed on without the buffer
estimateGasUnbuffered(reply) ==
  LET res == rpc(reply)
      gas == bnFromHex(res.result)
  IN IF res.threw \/ ~gas.ok THEN [threw |-> TRUE, gasHex |-> Undef]
     ELSE [threw |-> FALSE, gasHex |-> Str(toHex(gas.val))]

estimateGasWithBuffer(reply) ==
  LET res == rpc(reply)
      gas == bnFromHex(res.result)
      buffered == BigAdd(gas.val, BigDiv(gas.val, 5))
  IN IF res.threw \/ ~gas.ok THEN [threw |-> TRUE, gasHex |-> Undef]
     ELSE [threw |-> FALSE, gasHex |-> Str(toHex(buffered))]

(* ------------------------------ requests ------------------------------ *)

EmptyBody ==
  [sellToken |-> Undef, buyToken |-> Undef, sellAmount |-> Undef, taker |-> Undef,
   slippagePercentage |-> Undef, chainId |-> Undef]

EmptyTx ==
  [t |-> "object", to |-> Undef, data |-> Undef, value |-> Undef, gas |-> Undef,
   maxFeePerGas |-> Undef, maxPriorityFeePerGas |-> Undef]

\* {} as the transaction of a quote
EmptyRawTx ==
  [t |-> "object", to |-> Undef, data |-> Undef, value |-> Undef, gas |-> Undef]

NoReply == [kind |-> "none"]

\* a JSON response body: the keys the handler did not set are Undef
EmptyResponse ==
  [status |-> 200, message |-> Undef, details |-> Undef, raw |-> Undef,
   tx |-> Undef, data |-> Undef]

\* A request in hand: pc is the await the handler is suspended at; sent, rpcs,
\* got, steps and resps record the calls issued, the replies of the node, the
\* steps entered and the responses sent.
IdleRequest ==
  [pc |-> "idle", route |-> "", body |-> EmptyBody, sent |-> <<>>,
   reply |-> NoReply, tx |-> EmptyTx, baseFee |-> BigZero, rpcs |-> <<>>,
   got |-> <<>>, steps |-> <<>>, resps |-> <<>>]

Step(q, name) == [q EXCEPT !.steps = Append(@, name)]

Respond(q, response) ==
  [q EXCEPT !.pc = "done", !.resps = Append(@, response),
            !.steps = Append(@, "Responding")]

\* res.status(400).json({ message }) without the return: the handler goes on to
\* the call of the aggregator
BadRequestFallsThrough(q, message) ==
  LET sentq == Respond(q, [EmptyResponse EXCEPT !.status = 400,
                                                !.message = Str(message)])
  IN Step([sentq EXCEPT !.pc = "await0x",
                        !.sent = Append(@, [endpoint |-> "price",
                                            params |-> buildParams(q.body)])],
          IF q.route = "quote" THEN "Pricing" ELSE "Quoting")

\* return res.status(400).json({ message })
BadRequest(q, message) ==
  Respond(q, [EmptyResponse EXCEPT !.status = 400, !.message = Str(message)])

\* every failure answered as a failure of the proxy
CaughtAsServerError(q, err, fallback) ==
  Respond(q, [EmptyResponse EXCEPT !.status = 500, !.message = Str(fallback),
                                   !.details = Null])

\* the catch block of a handler
Caught(q, err, fallback) ==
  Respond(q, [EmptyResponse EXCEPT
                !.status = IF err.status = 0 THEN 500 ELSE err.status,
                !.message = Str(IF err.message = "" THEN fallback ELSE err.message),
                !.details = IF Falsy(err.details) THEN Null ELSE err.details])

\* the failed check of /quote, "" when the body passes
quoteValidation(b) ==
  IF Falsy(b.sellToken) \/ Falsy(b.buyToken) \/ IsNullish(b.sellAmount)
  THEN "Missing sellToken/buyToken/sellAmount"
  ELSE IF b.sellToken # ETH_SENTINEL /\ b.sellToken # Str("ETH")
          /\ ~isHexAddress(b.sellToken)
  THEN "Invalid sellToken address"
  ELSE IF b.buyToken # ETH_SENTINEL /\ b.buyToken # Str("ETH")
          /\ ~isHexAddress(b.buyToken)
  THEN "Invalid buyToken address"
  ELSE IF ~mustBeUintString(Str(String(b.sellAmount)))
  THEN "sellAmount must be an integer string (wei)"
  ELSE ""

\* the failed check of /swap, "" when the body passes
swapValidation(b) ==
  IF Falsy(b.sellToken) \/ Falsy(b.buyToken) \/ Falsy(b.sellAmount)
     \/ Falsy(b.taker)
  THEN "Missing sellToken/buyToken/sellAmount/taker"
  ELSE IF ~isHexAddress(b.taker)
  THEN "Invalid taker address"
  ELSE IF ~mustBeUintString(Str(String(b.sellAmount)))
  THEN "sellAmount must be an integer string (wei)"
  ELSE ""

normalizeToken(token) == IF token = Str("ETH") THEN ETH_SENTINEL ELSE token

\* the query of /quote with the tokens as they came
quoteParamsAsSent(b) ==
  buildParams([b EXCEPT !.sellAmount = Str(String(b.sellAmount))])

\* the query of /quote
quoteParams(b) ==
  buildParams([b EXCEPT !.sellToken = normalizeToken(b.sellToken),
                        !.buyToken = normalizeToken(b.buyToken),
                        !.sellAmount = Str(String(b.sellAmount))])

\* the query of /swap
swapParams(b) ==
  [buildParams([b EXCEPT !.sellToken = normalizeToken(b.sellToken),
                         !.buyToken = normalizeToken(b.buyToken),
                         !.sellAmount = Str(String(b.sellAmount))])
   EXCEPT !.intentOnFilling = Str("true")]

\* tx.value taken from the quote whenever the quote has one
swapValueTrustsQuote(b, rawTx) ==
  IF ~IsNullish(rawTx.value)
  THEN IF startsWith(String(rawTx.value), "0x")
       THEN Str(String(rawTx.value))
       ELSE Str(decStringToHex(String(rawTx.value)))
  ELSE IF normalizeToken(b.sellToken) = ETH_SENTINEL
  THEN Str(decStringToHex(String(b.sellAmount)))
  ELSE Str("0x0")

\* tx.value defaulting to the sellAmount when the quote has none
swapValueDefaultsToAmount(b, rawTx) ==
  IF normalizeToken(b.sellToken) # ETH_SENTINEL /\ ~IsNullish(rawTx.value)
  THEN IF startsWith(String(rawTx.value), "0x")
       THEN Str(String(rawTx.value))
       ELSE Str(decStringToHex(String(rawTx.value)))
  ELSE Str(decStringToHex(String(b.sellAmount)))

\* tx.value of /swap
swapValue(b, rawTx) ==
  IF normalizeToken(b.sellToken) = ETH_SENTINEL
  THEN Str(decStringToHex(String(b.sellAmount)))
  ELSE IF ~IsNullish(rawTx.value)
  THEN IF startsWith(String(rawTx.value), "0x")
       THEN Str(String(rawTx.value))
       ELSE Str(decStringToHex(String(rawTx.value)))
  ELSE Str("0x0")

\* the base tx of /swap, with the gas of the quote if it has one
swapBaseTx(b, rawTx) ==
  LET maybeGas == normalizeGasField(rawTx.gas)
  IN [EmptyTx EXCEPT !.to = rawTx.to, !.data = rawTx.data,
                     !.value = swapValue(b, rawTx),
                     !.gas = IF Falsy(maybeGas) THEN Undef ELSE maybeGas]

\* only to is looked at
lacksTo(rawTx) == Falsy(rawTx.to)

\* the quote carries no transaction to send
lacksTxFields(rawTx) == Falsy(rawTx.to) \/ Falsy(rawTx.data)

\* the JSON-RPC call the handler issues next, with the id it takes
\* every call sent under the same id
CallWithFixedId(q, id, method, params) ==
  [q EXCEPT !.rpcs = Append(@, [id |-> 1, method |-> method, params |-> params])]

Call(q, id, method, params) ==
  [q EXCEPT !.rpcs = Append(@, [id |-> id, method |-> method, params |-> params])]

(* ------------------------------- inputs ------------------------------- *)

USDC == Str("0xA0b86991c6218b36c1d19D4a2e9Eb0cE3606eB48")
DAI == Str("0x6B175474E89094C44Da98b954EedeAC495271d0F")
Wallet == Str("0x742d35Cc6634C0532925a3b844Bc454e4438f44e")
\* the sentinel in lower case
LowerSentinel == Str("0xeeeeeeeeeeeeeeeeeeeeeeeeeeeeeeeeeeeeeeee")
OneEther == Str("1000000000000000000")

SellTokens ==
  {Undef, Str(""), Str("ETH"), ETH_SENTINEL, LowerSentinel, USDC, Str("USDC")}
BuyTokens == {Undef, Str("ETH"), DAI, Str("DAI")}
SellAmounts ==
  {Undef, Str(""), Str("0"), OneEther, Str("0255"), Str("-5"), Str("1.5"),
   Num("0", 0), Num("5", 500000)}
Takers == {Undef, Wallet, Str("0xabc")}
Slippages ==
  {Undef, Str("0.02"), Num("0.02", 2000), Num("0.5", 50000), Num("-1", -100000),
   Num("0.00014", 14), Num("0.00016", 16), Num("0.1234", 12340), Num("0.2", 20000),
   Num("0", 0)}
ChainIds == {Undef, Num("137", 13700000), Num("0", 0)}

\* every combination of sell token, amount and taker for three buy tokens under
\* the default slippage and chain; a native buy; every slippage, and every
\* chain, for four bodies that pass
Bodies ==
  {[sellToken |-> s, buyToken |-> b, sellAmount |-> a, taker |-> t,
    slippagePercentage |-> Undef, chainId |-> Undef] :
     s \in SellTokens, b \in BuyTokens \ {Str("ETH")}, a \in SellAmounts,
     t \in Takers}
  \cup
  {[sellToken |-> USDC, buyToken |-> Str("ETH"), sellAmount |-> OneEther,
    taker |-> t, slippagePercentage |-> Undef, chainId |-> Undef] : t \in Takers}
  \cup
  {[sellToken |-> s, buyToken |-> DAI, sellAmount |-> OneEther, taker |-> t,
    slippagePercentage |-> p, chainId |-> Undef] :
     s \in {Str("ETH"), USDC}, t \in {Undef, Wallet}, p \in Slippages}
  \cup
  {[sellToken |-> s, buyToken |-> DAI, sellAmount |-> OneEther, taker |-> t,
    slippagePercentage |-> Undef, chainId |-> c] :
     s \in {Str("ETH"), USDC}, t \in {Undef, Wallet}, c \in ChainIds}

JsonText(o) == [form |-> "json", raw |-> "", json |-> o]
EmptyText == [form |-> "empty", raw |-> "", json |-> EmptyObject]
RawText(s) == [form |-> "text", raw |-> s, json |-> EmptyObject]

Http(status, text) ==
  [kind |-> "http", status |-> status, text |-> text, message |-> ""]
NetError == [kind |-> "neterr", status |-> 0, text |-> EmptyText, message |-> "fetch failed"]

RawTx(to, data, value, gas) ==
  [t |-> "object", to |-> to, data |-> data, value |-> value, gas |-> gas]

Router == Str("0x0000000000001fF3684f28c67538d4D072C22734")
CallData == Str("0x2213bc0b")

UpstreamValues ==
  {Undef, Null, Str("0x0"), Str("0x2386f26fc10000"), Str("255"), Str("-5"),
   Str("abc"), Str(""), Str("0x"), Num("7", 700000)}
UpstreamGas ==
  {Undef, Str("0x5208"), Str("21000"), Str("abc"), Str(""), Str("0x"),
   Num("21000", 2100000000)}

\* the transactions a firm quote may carry
RawTxs ==
  {RawTx(Undef, CallData, Undef, Undef), RawTx(Router, Undef, Undef, Undef),
   RawTx(Router, Str(""), Str("255"), Str("21000"))}
  \cup {RawTx(Router, CallData, v, Undef) : v \in UpstreamValues}
  \cup {RawTx(Router, CallData, Undef, g) : g \in UpstreamGas}
  \cup {RawTx(Router, CallData, Str("255"), Str("21000")),
        RawTx(Router, CallData, Str("0x0"), Str("0x5208"))}

ErrorTexts ==
  {JsonText([EmptyObject EXCEPT !.message = Str("no Route matched")]),
   JsonText([EmptyObject EXCEPT !.message = Str("")]),
   EmptyText, RawText("Bad Gateway")}

OkTexts ==
  {EmptyText, JsonText([EmptyObject EXCEPT !.buyAmount = Str("3000000000")])}
  \cup {JsonText([EmptyObject EXCEPT !.buyAmount = Str("3000000000"),
                                     !.transaction = tx]) : tx \in RawTxs}

AggReplies ==
  {NetError}
  \cup {Http(st, text) : st \in {400, 502}, text \in ErrorTexts}
  \cup {Http(200, text) : text \in OkTexts}

Result(x) == [kind |-> "result", result |-> x]
RpcError == [kind |-> "error", result |-> Undef]
RpcDown == [kind |-> "neterr", result |-> Undef]
Block(baseFee) == [t |-> "object", baseFeePerGas |-> baseFee]

EstimateReplies == {RpcError, RpcDown, Result(Str("0x5208")), Result(Null)}
BlockReplies ==
  {RpcError, Result(Block(Str("0x3b9aca00"))), Result(Block(Undef)), Result(Null),
   Result(Block(Str("zz")))}
TipReplies == {RpcError, Result(Str("0x77359400")), Result(Null)}

(* ----------------------------- sushi pools ---------------------------- *)

SUSHI_CACHE_TTL_MS == 60 * 1000

\* __sushiCache.get(key) of a key that was never set
NoEntry == [none |-> TRUE]

\* Number(s) for the digits of a natural number, NaN for any other text
RECURSIVE DigitsValue(_, _)
DigitsValue(s, n) ==
  IF n = 0 THEN 0 ELSE 10 * DigitsValue(s, n - 1) + HexValue(CharAt(s, n))

NaN == [nan |-> TRUE, n |-> 0]
Number(x) ==
  IF x.t = "string" /\ IsDecString(x.v)
  THEN [nan |-> FALSE, n |-> DigitsValue(x.v, Len(x.v))]
  ELSE NaN

\* Math.min(a, x) and Math.max(a, x) for a number a and an x that may be NaN
MathMin(a, x) == IF x.nan THEN NaN ELSE [nan |-> FALSE, n |-> IF a < x.n THEN a ELSE x.n]
MathMax(a, x) == IF x.nan THEN NaN ELSE [nan |-> FALSE, n |-> IF a > x.n THEN a ELSE x.n]

\* String(chain || "ethereum").toLowerCase()
sushiChain(query) ==
  toLowerCase(String(IF Falsy(query.chain) THEN Str("ethereum") ELSE query.chain))

\* Math.max(1, Math.min(10, Number(limit || 5)))
sushiLimit(query) ==
  MathMax(1, MathMin(10, IF Falsy(query.limit) THEN [nan |-> FALSE, n |-> 5]
                         ELSE Number(query.limit)))

\* `${chain}|${limit}`
cacheKey(chain, limit) ==
  chain \o "|" \o (IF limit.nan THEN "NaN" ELSE NatToString(limit.n))

\* an entry was found and is younger than the time to live
isFreshWhateverItsAge(cached, t) == cached # NoEntry

\* cached && now - cached.ts < SUSHI_CACHE_TTL_MS
isFresh(cached, t) == cached # NoEntry /\ t - cached.ts < SUSHI_CACHE_TTL_MS

Pool(id, name) == [id |-> id, name |-> name, feePct |-> "0.3"]

\* the five pools answered when the subgraph cannot be read (the dash of
\* tvlText is an em dash in the source)
Placeholders ==
  <<[id |-> "0x0", name |-> "WBTC / ETH", tvlText |-> "$-", feePct |-> "0.3",
     url |-> "https://www.sushi.com/ethereum/explore/pools"],
    [id |-> "0x0", name |-> "DAI / ETH", tvlText |-> "$-", feePct |-> "0.3",
     url |-> "https://www.sushi.com/ethereum/explore/pools"],
    [id |-> "0x0", name |-> "USDC / ETH", tvlText |-> "$-", feePct |-> "0.3",
     url |-> "https://www.sushi.com/ethereum/explore/pools"],
    [id |-> "0x0", name |-> "SUSHI / ETH", tvlText |-> "$-", feePct |-> "0.3",
     url |-> "https://www.sushi.com/ethereum/explore/pools"],
    [id |-> "0x0", name |-> "LINK / ETH", tvlText |-> "$-", feePct |-> "0.3",
     url |-> "https://www.sushi.com/ethereum/explore/pools"]>>

\* nonZero.slice(0, limit): nothing for a limit that is NaN
slice(list, limit) ==
  IF limit.nan THEN <<>>
  ELSE SubSeq(list, 1, IF limit.n < Len(list) THEN limit.n ELSE Len(list))

\* fetchSushiPoolsFromGraphql for one outcome of the subgraph: the pools with a
\* value locked, cut to the limit, or the error thrown
fetchSushiPoolsFromGraphql(outcome, limit) ==
  IF outcome.kind = "pools"
  THEN [threw |-> FALSE, items |-> slice(outcome.nonZero, limit), message |-> ""]
  ELSE [threw |-> TRUE, items |-> <<>>, message |-> outcome.message]

\* the body of a response: ok, and cached where it is present, are booleans
Bool(b) == [t |-> "boolean", v |-> IF b THEN "true" ELSE "false", n |-> 0]

SushiResponse(ok, chain, cached, items, error) ==
  [status |-> 200, ok |-> ok, chain |-> chain, cached |-> cached, items |-> items,
   error |-> error]

IdleSushi ==
  [pc |-> "idle", query |-> [chain |-> Undef, limit |-> Undef], chain |-> "",
   limit |-> NaN, cacheKey |-> "", now |-> 0, calls |-> 0, got |-> "",
   resps |-> <<>>]

\* GET /sushi/pools from the arrival of the request to the answer from the
\* cache or the call of the subgraph
sushiBeforeFetch(g0, query, cache, t) ==
  LET chain == sushiChain(query)
      limit == sushiLimit(query)
      key == cacheKey(chain, limit)
      cached == cache[key]
      q == [g0 EXCEPT !.query = query, !.chain = chain, !.limit = limit,
                      !.cacheKey = key, !.now = t]
  IN IF isFresh(cached, t)
     THEN [q EXCEPT !.pc = "done",
                    !.resps = Append(@, SushiResponse(Bool(TRUE), Str(chain), Bool(TRUE),
                                                      cached.data, Undef))]
     ELSE [q EXCEPT !.pc = "awaitGraph", !.calls = @ + 1]

\* GET /sushi/pools from the outcome of the subgraph call on: the request and
\* the cache after it
sushiAfterFetch(g0, outcome, cache) ==
  LET res == fetchSushiPoolsFromGraphql(outcome, g0.limit)
  IN IF res.threw
     THEN [g |-> [g0 EXCEPT !.pc = "done", !.got = outcome.kind,
                            !.resps = Append(@, SushiResponse(Bool(FALSE), Undef, Undef,
                                                   Placeholders, Str(res.message)))],
           cache |-> cache]
     ELSE [g |-> [g0 EXCEPT !.pc = "done", !.got = outcome.kind,
                            !.resps = Append(@, SushiResponse(Bool(TRUE), Str(g0.chain), Bool(FALSE),
                                                              res.items, Undef))],
           cache |-> [cache EXCEPT ![g0.cacheKey] = [ts |-> g0.now, data |-> res.items]]]

\* the queries of the clients
SushiQueries ==
  {[chain |-> Undef, limit |-> Undef],
   [chain |-> Str("Ethereum"), limit |-> Str("5")],
   [chain |-> Undef, limit |-> Str("50")]}

SushiKeys == {cacheKey(sushiChain(q), sushiLimit(q)) : q \in SushiQueries}

\* the outcomes of the subgraph call
GraphOutcomes ==
  {[kind |-> "pools", nonZero |-> <<Pool("0xa1", "WETH / USDC")>>, message |-> ""],
   [kind |-> "pools", message |-> "",
    nonZero |-> <<Pool("0xb1", "SUSHI / WETH"), Pool("0xb2", "WBTC / WETH"),
                  Pool("0xb3", "DAI / WETH"), Pool("0xb4", "LINK / WETH"),
                  Pool("0xb5", "UNI / WETH"), Pool("0xb6", "AAVE / WETH")>>],
   [kind |-> "error", nonZero |-> <<>>, message |-> "Subgraph HTTP 502"]}

(* ----------------------------- crypto news ---------------------------- *)

NEWS_SOURCES ==
  <<[name |-> "CoinDesk", url |-> "https://www.coindesk.com/arc/outboundfeeds/rss/?outputType=xml"],
    [name |-> "Cointelegraph", url |-> "https://cointelegraph.com/rss"],
    [name |-> "CryptoSlate", url |-> "https://cryptoslate.com/feed/"],
    [name |-> "CryptoNews", url |-> "https://cryptonews.com/news/feed/"],
    [name |-> "CryptoPotato", url |-> "https://cryptopotato.com/feed/"]>>

NEWS_MAX_ITEMS == 5

\* the first place at which pat occurs in s, 0 when it does not occur
IndexOf(s, pat) ==
  LET hits == {i \in 1..(Len(s) - Len(pat) + 1) : SubSeq(s, i, i + Len(pat) - 1) = pat}
  IN IF hits = {} THEN 0 ELSE CHOOSE i \in hits : \A j \in hits : i <= j

\* s.replace(/pat/g, rep) for a pattern that is a plain text
RECURSIVE replaceAll(_, _, _)
replaceAll(s, pat, rep) ==
  LET i == IndexOf(s, pat)
  IN IF i = 0 THEN s
     ELSE SubSeq(s, 1, i - 1) \o rep
          \o replaceAll(SubSeq(s, i + Len(pat), Len(s)), pat, rep)

\* s.replace(/<!\[CDATA\[(.*?)\]\]>/g, "$1"): the dot does not match a line end
RECURSIVE unwrapCdata(_)
unwrapCdata(s) ==
  LET i == IndexOf(s, "<![CDATA[")
      rest == SubSeq(s, i + 9, Len(s))
      j == IndexOf(rest, "]]>")
      inner == SubSeq(rest, 1, j - 1)
  IN IF i = 0 THEN s
     ELSE IF j = 0 \/ IndexOf(inner, "\n") # 0
     THEN SubSeq(s, 1, i) \o unwrapCdata(SubSeq(s, i + 1, Len(s)))
     ELSE SubSeq(s, 1, i - 1) \o inner \o unwrapCdata(SubSeq(rest, j + 3, Len(rest)))

WhiteSpace == {" ", "\t", "\n", "\r"}

\* s.trim()
trim(s) ==
  LET black == {i \in 1..Len(s) : CharAt(s, i) \notin WhiteSpace}
  IN IF black = {} THEN ""
     ELSE SubSeq(s, CHOOSE i \in black : \A j \in black : i <= j,
                    CHOOSE i \in black : \A j \in black : i >= j)

decodeXmlEntities(str) ==
  trim(replaceAll(replaceAll(replaceAll(replaceAll(replaceAll(
         unwrapCdata(str), "&amp;", "&"), "&lt;", "<"), "&gt;", ">"),
         "&quot;", "\""), "&#39;", "'"))

\* The text of a feed is given by the <item> blocks the pattern of parseRss
\* finds in it, each with the inner text of its first <title> and <link>
\* (Undef for a block without one).
Xml(blocks) == [t |-> "string", blocks |-> blocks]
ItemBlock(title, link) == [title |-> title, link |-> link]

newsItem(block, sourceName) ==
  LET title == IF block.title = Undef THEN "" ELSE decodeXmlEntities(block.title.v)
      link == IF block.link = Undef THEN "" ELSE decodeXmlEntities(block.link.v)
  IN [title |-> title, link |-> IF link = "" THEN Null ELSE Str(link),
      source |-> sourceName]

\* parseRss: the blocks with a title, ten of them at most
parseRss(xml, sourceName) ==
  IF xml.t # "string" \/ xml.blocks = <<>> THEN <<>>
  ELSE LET found == [i \in 1..Len(xml.blocks) |-> newsItem(xml.blocks[i], sourceName)]
           items == SelectSeq(found, LAMBDA it : it.title # "")
       IN SubSeq(items, 1, IF Len(items) < 10 THEN Len(items) ELSE 10)

\* fetchOneRss for one outcome of the fetch: the settled promise
fetchOneRss(src, outcome) ==
  IF outcome.kind = "text"
  THEN [status |-> "fulfilled", value |-> parseRss(outcome.text, src.name)]
  ELSE [status |-> "rejected", value |-> <<>>]

\* merged.push(...r.value) over the results from the n-th on
RECURSIVE mergedFrom(_, _)
mergedFrom(results, n) ==
  IF n > Len(results) THEN <<>>
  ELSE (IF results[n].status = "fulfilled" THEN results[n].value ELSE <<>>)
       \o mergedFrom(results, n + 1)

\* the loop over merged from the i-th item on
RECURSIVE dedupeFrom(_, _, _, _)
dedupeFrom(merged, i, seen, deduped) ==
  IF i > Len(merged) \/ Len(deduped) >= NEWS_MAX_ITEMS THEN deduped
  ELSE LET key == toLowerCase(merged[i].title)
       IN IF key = "" \/ key \in seen
          THEN dedupeFrom(merged, i + 1, seen, deduped)
          ELSE dedupeFrom(merged, i + 1, seen \cup {key}, Append(deduped, merged[i]))

\* every item of the feeds kept
refreshKeepsEverything(results, t, cache) ==
  [updatedAt |-> t, items |-> mergedFrom(results, 1), error |-> Null]

\* refreshCryptoNews from the settling of the five fetches on.  Promise.allSettled
\* does not reject and nothing after it throws, so the catch block, which keeps
\* the items of the cache, is not entered.
refreshCryptoNews(results, t, cache) ==
  [updatedAt |-> t, items |-> dedupeFrom(mergedFrom(results, 1), 1, {}, <<>>),
   error |-> Null]

\* the outcomes of the fetch of each feed: the connection fails, or a text
FeedDown == [kind |-> "failed", text |-> Undef]
FeedText(blocks) == [kind |-> "text", text |-> Xml(blocks)]

FeedOutcomes ==
  <<{FeedDown,
     FeedText(<<ItemBlock(Str(" Bitcoin tops 100k "), Str("https://coindesk.example/1")),
                ItemBlock(Str("<![CDATA[Ether &amp; gas]]>"), Str("https://coindesk.example/2")),
                ItemBlock(Str("Fed holds rates"), Str("https://coindesk.example/3"))>>)},
    {FeedDown,
     FeedText(<<ItemBlock(Str("BITCOIN TOPS 100K"), Str("https://cointelegraph.example/1")),
                ItemBlock(Str("Solana outage"), Undef),
                ItemBlock(Str("   "), Str("https://cointelegraph.example/3"))>>)},
    {FeedDown,
     FeedText(<<ItemBlock(Str("ether & gas"), Str("https://cryptoslate.example/1")),
                ItemBlock(Str("ETF inflows"), Str("https://cryptoslate.example/2")),
                ItemBlock(Str("Stablecoin bill"), Str("https://cryptoslate.example/3"))>>)},
    {FeedDown,
     FeedText(<<ItemBlock(Str("Miner sells"), Str("https://cryptonews.example/1")),
                ItemBlock(Undef, Str("https://cryptonews.example/2")),
                ItemBlock(Str("etf inflows"), Str("https://cryptonews.example/3"))>>)},
    {FeedDown, FeedText(<<>>)}>>

\* one outcome for each feed
SettledResults ==
  {[i \in 1..Len(NEWS_SOURCES) |-> fetchOneRss(NEWS_SOURCES[i], o[i])] :
     o \in {f \in [1..Len(NEWS_SOURCES) -> UNION {FeedOutcomes[i] : i \in 1..Len(NEWS_SOURCES)}] :
              \A i \in 1..Len(NEWS_SOURCES) : f[i] \in FeedOutcomes[i]}}

(* ---------------------------- state machine --------------------------- *)

Reqs == {1}

\* the clients of GET /sushi/pools
SushiClients == {1, 2, 3}

VARIABLES
  RPC_URL,  \* the node RPC endpoint of the environment, "" when not set
  rpcId,    \* the id the next JSON-RPC call takes
  h,        \* the requests in hand
  now,              \* Date.now(), in milliseconds from the start of the process
  sushiCache,       \* __sushiCache: key |-> {ts, data}, NoEntry for a key not set
  sushi,            \* the requests of GET /sushi/pools in hand
  cryptoNewsCache,  \* the news cache
  refreshing,       \* the calls of refreshCryptoNews waiting on their fetches
  results,          \* the status of each fetch of the refresh that settled last
  newsResps         \* the response of the latest GET /api/crypto-news

vars ==
  <<RPC_URL, rpcId, h, now, sushiCache, sushi, cryptoNewsCache, refreshing, results,
    newsResps>>

\* what /quote and /swap leave alone
pools == <<now, sushiCache, sushi>>
news == <<cryptoNewsCache, refreshing, results, newsResps>>

\* The process after its start: no request in hand, both caches empty, and the
\* first refresh of the news, called when the module is loaded, on its way.
Started ==
  /\ rpcId = 1
  /\ now = 0
  /\ sushiCache = [k \in SushiKeys |-> NoEntry]
  /\ sushi = [c \in SushiClients |-> IdleSushi]
  /\ cryptoNewsCache = [updatedAt |-> 0, items |-> <<>>, error |-> Null]
  /\ refreshing = 1
  /\ results = <<>>
  /\ newsResps = <<>>

Init ==
  /\ RPC_URL \in {"", "https://rpc.example"}
  /\ Started
  /\ h = [r \in Reqs |-> IdleRequest]

\* /quote from the arrival of the body to the price call
quoteBeforePrice(q0, b) ==
  LET q == Step([q0 EXCEPT !.route = "quote", !.body = b], "Validating")
      failed == quoteValidation(b)
  IN IF failed # "" THEN BadRequest(q, failed)
     ELSE Step([q EXCEPT !.pc = "await0x",
                         !.sent = Append(@, [endpoint |-> "price",
                                             params |-> quoteParams(b)])],
               "Pricing")

\* /quote from the reply of the aggregator on
quoteAfterPrice(q0, reply) ==
  LET q == [q0 EXCEPT !.reply = reply]
      res == call0x(reply)
  IN IF res.threw THEN Caught(q, res, "Quote failed")
     ELSE Respond(q, [EmptyResponse EXCEPT !.data = res.data])

\* /swap from the arrival of the body to the quote call
swapBeforeQuote(q0, b) ==
  LET q == Step([q0 EXCEPT !.route = "swap", !.body = b], "Validating")
      failed == swapValidation(b)
  IN IF failed # "" THEN BadRequest(q, failed)
     ELSE Step([q EXCEPT !.pc = "await0x",
                         !.sent = Append(@, [endpoint |-> "quote",
                                             params |-> swapParams(b)])],
               "Quoting")

\* POST /quote up to its await: the checks, then the price call
QuoteReceiveOf(r, bodies) ==
  /\ h[r].pc = "idle"
  /\ \E b \in bodies : h' = [h EXCEPT ![r] = quoteBeforePrice(h[r], b)]
  /\ UNCHANGED <<RPC_URL, rpcId, pools, news>>

QuoteReceive(r) == QuoteReceiveOf(r, Bodies)

\* POST /quote from the reply of the aggregator on
QuoteReplyOf(r, replies) ==
  /\ h[r].pc = "await0x"
  /\ h[r].route = "quote"
  /\ \E reply \in replies : h' = [h EXCEPT ![r] = quoteAfterPrice(h[r], reply)]
  /\ UNCHANGED <<RPC_URL, rpcId, pools, news>>

QuoteReply(r) == QuoteReplyOf(r, AggReplies)

\* POST /swap up to its await: the checks, then the quote call
SwapReceiveOf(r, bodies) ==
  /\ h[r].pc = "idle"
  /\ \E b \in bodies : h' = [h EXCEPT ![r] = swapBeforeQuote(h[r], b)]
  /\ UNCHANGED <<RPC_URL, rpcId, pools, news>>

SwapReceive(r) == SwapReceiveOf(r, Bodies)

\* the node asked whether or not an endpoint is set
swapAfterQuoteAlwaysAsks(q0, reply, url, id) ==
  LET q == [q0 EXCEPT !.reply = reply]
      res == call0x(reply)
      quoteData == res.data
      rawTx == IF Falsy(quoteData.transaction) THEN EmptyRawTx
               ELSE quoteData.transaction
      built == Step(q, "BuildingTx")
      tx == swapBaseTx(q.body, rawTx)
      estTx == [from |-> q.body.taker, to |-> tx.to, data |-> tx.data,
                value |-> tx.value]
  IN IF res.threw THEN [q |-> Caught(q, res, "Swap failed"), rpcId |-> id]
     ELSE IF lacksTxFields(rawTx)
     THEN [q |-> Respond(built, [EmptyResponse EXCEPT
                   !.status = 500,
                   !.message = Str("0x quote did not return tx fields"),
                   !.raw = quoteData]),
           rpcId |-> id]
     ELSE IF TRUE
     THEN [q |-> Step(Call([built EXCEPT !.tx = tx, !.pc = "awaitEstimate"],
                           id, "eth_estimateGas", estTx), "Estimating"),
           rpcId |-> id + 1]
     ELSE [q |-> Respond([built EXCEPT !.tx = tx],
                         [EmptyResponse EXCEPT !.tx = tx]),
           rpcId |-> id]

\* /swap between the reply of the aggregator and the next await or response
swapAfterQuote(q0, reply, url, id) ==
  LET q == [q0 EXCEPT !.reply = reply]
      res == call0x(reply)
      quoteData == res.data
      rawTx == IF Falsy(quoteData.transaction) THEN EmptyRawTx
               ELSE quoteData.transaction
      built == Step(q, "BuildingTx")
      tx == swapBaseTx(q.body, rawTx)
      estTx == [from |-> q.body.taker, to |-> tx.to, data |-> tx.data,
                value |-> tx.value]
  IN IF res.threw THEN [q |-> Caught(q, res, "Swap failed"), rpcId |-> id]
     ELSE IF lacksTxFields(rawTx)
     THEN [q |-> Respond(built, [EmptyResponse EXCEPT
                   !.status = 500,
                   !.message = Str("0x quote did not return tx fields"),
                   !.raw = quoteData]),
           rpcId |-> id]
     ELSE IF url # ""
     THEN [q |-> Step(Call([built EXCEPT !.tx = tx, !.pc = "awaitEstimate"],
                           id, "eth_estimateGas", estTx), "Estimating"),
           rpcId |-> id + 1]
     ELSE [q |-> Respond([built EXCEPT !.tx = tx],
                         [EmptyResponse EXCEPT !.tx = tx]),
           rpcId |-> id]

SwapReplyOf(r, replies) ==
  /\ h[r].pc = "await0x"
  /\ h[r].route = "swap"
  /\ \E reply \in replies :
       LET next == swapAfterQuote(h[r], reply, RPC_URL, rpcId)
       IN /\ h' = [h EXCEPT ![r] = next.q]
          /\ rpcId' = next.rpcId
  /\ UNCHANGED <<RPC_URL, pools, news>>

SwapReply(r) == SwapReplyOf(r, AggReplies)

\* a failed estimate taking the gas of the quote with it
swapAfterEstimateDropsGas(q0, reply, id) ==
  LET est == estimateGasWithBuffer(reply)
      q == [q0 EXCEPT !.got = Append(@, reply),
                      !.tx.gas = IF est.threw THEN Undef ELSE est.gasHex]
  IN Call([q EXCEPT !.pc = "awaitBlock"], id, "eth_getBlockByNumber", Undef)

\* a failed estimate asked for again
swapAfterEstimateRetries(q0, reply, id) ==
  LET est == estimateGasWithBuffer(reply)
      q == [q0 EXCEPT !.got = Append(@, reply),
                      !.tx.gas = IF est.threw THEN @ ELSE est.gasHex]
  IN IF est.threw
     THEN Call(q, id, "eth_estimateGas", q0.rpcs[Len(q0.rpcs)].params)
     ELSE Call([q EXCEPT !.pc = "awaitBlock"], id, "eth_getBlockByNumber", Undef)

\* the failure of the estimate reaching the catch block of the handler
swapAfterEstimateUncaught(q0, reply, id) ==
  LET est == estimateGasWithBuffer(reply)
      q == [q0 EXCEPT !.got = Append(@, reply),
                      !.tx.gas = IF est.threw THEN @ ELSE est.gasHex]
  IN IF est.threw
     THEN Caught(q, [message |-> "RPC error", status |-> 0, details |-> Undef],
                 "Swap failed")
     ELSE Call([q EXCEPT !.pc = "awaitBlock"], id, "eth_getBlockByNumber", Undef)

\* /swap from the reply to eth_estimateGas to the first call of the fee suggestion
swapAfterEstimate(q0, reply, id) ==
  LET est == estimateGasWithBuffer(reply)
      q == [q0 EXCEPT !.got = Append(@, reply),
                      !.tx.gas = IF est.threw THEN @ ELSE est.gasHex]
  IN Call([q EXCEPT !.pc = "awaitBlock"], id, "eth_getBlockByNumber", Undef)

EstimateReplyOf(r, replies) ==
  /\ h[r].pc = "awaitEstimate"
  /\ \E reply \in replies :
       h' = [h EXCEPT ![r] = swapAfterEstimate(h[r], reply, rpcId)]
  /\ rpcId' = rpcId + 1
  /\ UNCHANGED <<RPC_URL, pools, news>>

EstimateReply(r) == EstimateReplyOf(r, EstimateReplies)

\* the tip asked for after a block that did not come
swapAfterBlockAsksTipAnyway(q0, reply, id) ==
  LET q == [q0 EXCEPT !.got = Append(@, reply)]
      base == suggestBaseFee(reply)
  IN [q |-> Call([q EXCEPT !.pc = "awaitTip", !.baseFee = base.baseFee],
                 id, "eth_maxPriorityFeePerGas", Undef),
      rpcId |-> id + 1]

\* the fee suggestion given up once the counter of the process has passed the
\* three calls of one request
swapAfterBlockByCounter(q0, reply, id) ==
  LET q == [q0 EXCEPT !.got = Append(@, reply)]
      base == suggestBaseFee(reply)
  IN IF base.threw \/ id > 3
     THEN [q |-> Respond(q, [EmptyResponse EXCEPT !.tx = q.tx]), rpcId |-> id]
     ELSE [q |-> Call([q EXCEPT !.pc = "awaitTip", !.baseFee = base.baseFee],
                      id, "eth_maxPriorityFeePerGas", Undef),
           rpcId |-> id + 1]

\* /swap from the reply to eth_getBlockByNumber on
swapAfterBlock(q0, reply, id) ==
  LET q == [q0 EXCEPT !.got = Append(@, reply)]
      base == suggestBaseFee(reply)
  IN IF base.threw
     THEN [q |-> Respond(q, [EmptyResponse EXCEPT !.tx = q.tx]), rpcId |-> id]
     ELSE [q |-> Call([q EXCEPT !.pc = "awaitTip", !.baseFee = base.baseFee],
                      id, "eth_maxPriorityFeePerGas", Undef),
           rpcId |-> id + 1]

BlockReplyOf(r, replies) ==
  /\ h[r].pc = "awaitBlock"
  /\ \E reply \in replies :
       LET next == swapAfterBlock(h[r], reply, rpcId)
       IN /\ h' = [h EXCEPT ![r] = next.q]
          /\ rpcId' = next.rpcId
  /\ UNCHANGED <<RPC_URL, pools, news>>

BlockReply(r) == BlockReplyOf(r, BlockReplies)

\* the handler returning after the tip without sending anything
swapAfterTipNeverResponds(q0, reply) ==
  LET fees == suggestFees(q0.baseFee, reply)
  IN [q0 EXCEPT !.pc = "returned",
                !.got = Append(@, reply),
                !.tx.maxFeePerGas = fees.maxFeePerGas,
                !.tx.maxPriorityFeePerGas = fees.maxPriorityFeePerGas]

\* /swap from the reply to eth_maxPriorityFeePerGas on
swapAfterTip(q0, reply) ==
  LET fees == suggestFees(q0.baseFee, reply)
      q == [q0 EXCEPT !.got = Append(@, reply),
                      !.tx.maxFeePerGas = fees.maxFeePerGas,
                      !.tx.maxPriorityFeePerGas = fees.maxPriorityFeePerGas]
  IN Respond(q, [EmptyResponse EXCEPT !.tx = q.tx])

TipReplyOf(r, replies) ==
  /\ h[r].pc = "awaitTip"
  /\ \E reply \in replies :
       h' = [h EXCEPT ![r] = swapAfterTip(h[r], reply)]
  /\ UNCHANGED <<RPC_URL, rpcId, pools, news>>

TipReply(r) == TipReplyOf(r, TipReplies)

Next ==
  \E r \in Reqs :
    \/ QuoteReceive(r)
    \/ QuoteReply(r)
    \/ SwapReceive(r)
    \/ SwapReply(r)
    \/ EstimateReply(r)
    \/ BlockReply(r)
    \/ TipReply(r)

Spec == Init /\ [][Next]_vars

(* ------------------------- concurrent requests ------------------------ *)

\* Two requests in hand at once: the handlers interleave at their awaits.
Clients == {1, 2}

SwapBody(sell, taker) ==
  [sellToken |-> sell, buyToken |-> DAI, sellAmount |-> OneEther, taker |-> taker,
   slippagePercentage |-> Undef, chainId |-> Undef]

FewBodies == {SwapBody(USDC, Wallet), SwapBody(Str("ETH"), Wallet), SwapBody(USDC, Undef)}

FewAggReplies ==
  {Http(400, JsonText([EmptyObject EXCEPT !.message = Str("no Route matched")])),
   Http(200, JsonText([EmptyObject EXCEPT
                         !.buyAmount = Str("3000000000"),
                         !.transaction = RawTx(Router, CallData, Str("255"),
                                               Str("21000"))]))}

FewEstimateReplies == {RpcError, Result(Str("0x5208"))}
FewBlockReplies == {RpcError, Result(Block(Str("0x3b9aca00")))}
FewTipReplies == {RpcError, Result(Str("0x77359400"))}

InitConcurrent ==
  /\ RPC_URL \in {"", "https://rpc.example"}
  /\ Started
  /\ h = [r \in Clients |-> IdleRequest]

NextConcurrent ==
  \E r \in Clients :
    \/ QuoteReceiveOf(r, FewBodies)
    \/ QuoteReplyOf(r, FewAggReplies)
    \/ SwapReceiveOf(r, FewBodies)
    \/ SwapReplyOf(r, FewAggReplies)
    \/ EstimateReplyOf(r, FewEstimateReplies)
    \/ BlockReplyOf(r, FewBlockReplies)
    \/ TipReplyOf(r, FewTipReplies)

SpecConcurrent == InitConcurrent /\ [][NextConcurrent]_vars

\* The calls a request waits on come back: the aggregator call is made by axios
\* with a 15 second timeout, the node calls settle with a result or an error, and
\* the event loop then runs the continuation of the handler.  Arrivals of
\* requests are left to the clients and get no fairness.
Continue(r) ==
  \/ QuoteReplyOf(r, FewAggReplies)
  \/ SwapReplyOf(r, FewAggReplies)
  \/ EstimateReplyOf(r, FewEstimateReplies)
  \/ BlockReplyOf(r, FewBlockReplies)
  \/ TipReplyOf(r, FewTipReplies)

\* a body both routes accept, and one that /swap turns down for its taker
LiveBodies == {SwapBody(USDC, Wallet), SwapBody(USDC, Undef)}

NextLive ==
  \E r \in Clients :
    \/ QuoteReceiveOf(r, LiveBodies)
    \/ SwapReceiveOf(r, LiveBodies)
    \/ Continue(r)

SpecLive ==
  /\ InitConcurrent
  /\ [][NextLive]_vars
  /\ \A r \in Clients : WF_vars(Continue(r))

(* ----------------------- quantities of the node ----------------------- *)

\* One /swap with the node configured, over many gas values of the quote and
\* many results of the node.
GasQuotes ==
  {Http(200, JsonText([EmptyObject EXCEPT
                         !.transaction = RawTx(Router, CallData, Str("0x0"), g)])) :
     g \in UpstreamGas}

ManyEstimateReplies ==
  {RpcError, Result(Null), Result(Str("zz")), Result(Str("0x0")), Result(Str("0x4")),
   Result(Str("0x7")), Result(Str("0x5208")), Result(Str("0x05208")),
   Result(Str("0x3b9aca00")), Result(Str("0xffffffffffffffff"))}

ManyBlockReplies ==
  {RpcError, Result(Null), Result(Block(Undef)), Result(Block(Str("zz"))),
   Result(Block(Str("0x0"))), Result(Block(Str("0x3b9aca"))),
   Result(Block(Str("0x6fc23ac00")))}

ManyTipReplies ==
  {RpcError, RpcDown, Result(Null), Result(Str("zz")), Result(Str("0x0")),
   Result(Str("0x5f5e100")), Result(Str("0x77359400"))}

InitQuantities ==
  /\ RPC_URL = "https://rpc.example"
  /\ Started
  /\ h = [r \in Reqs |-> IdleRequest]

NextQuantities ==
  \E r \in Reqs :
    \/ SwapReceiveOf(r, FewBodies)
    \/ SwapReplyOf(r, GasQuotes)
    \/ EstimateReplyOf(r, ManyEstimateReplies)
    \/ BlockReplyOf(r, ManyBlockReplies)
    \/ TipReplyOf(r, ManyTipReplies)

SpecQuantities == InitQuantities /\ [][NextQuantities]_vars

(* --------------------------- amounts in wei --------------------------- *)

\* One native sale without a node, over many amounts and many gas values of
\* the quote: tx.value is decStringToHex of the amount, tx.gas is
\* normalizeGasField of the gas.
ShortAmounts ==
  {a \o b \o c : a \in {"", "1", "9"}, b \in {"", "0", "7"}, c \in {"0", "5", "9"}}
  \cup {"255", "21000", "65535", "1000000", "999999999"}

LargeAmounts ==
  {"1000000000000000000",
   "2147483648",
   "4294967296",
   "18446744073709551615",
   "18446744073709551616",
   "340282366920938463463374607431768211456",
   "115792089237316195423570985008687907853269984665640564039457584007913129639935",
   "0000000000000000000001000000000000000000000000"}

AmountBodies ==
  {[SwapBody(ETH_SENTINEL, Wallet) EXCEPT !.sellAmount = Str(a)] :
     a \in ShortAmounts \cup LargeAmounts}

AmountQuotes ==
  {Http(200, JsonText([EmptyObject EXCEPT
                         !.transaction = RawTx(Router, CallData, Undef, Str(g))])) :
     g \in {"0", "0255", "21000", "150000", "4294967296", "18446744073709551616"}}

InitAmounts ==
  /\ RPC_URL = ""
  /\ Started
  /\ h = [r \in Reqs |-> IdleRequest]

NextAmounts ==
  \E r \in Reqs :
    \/ SwapReceiveOf(r, AmountBodies)
    \/ SwapReplyOf(r, AmountQuotes)

SpecAmounts == InitAmounts /\ [][NextAmounts]_vars

(* ------------------------ the pools and their cache -------------------- *)

\* the steps of the clock, and the time at which it is stopped
TickMs == 30000
MaxNow == 60000

\* time passes
Tick ==
  /\ now < MaxNow
  /\ now' = now + TickMs
  /\ UNCHANGED <<RPC_URL, rpcId, h, sushiCache, sushi, news>>

\* GET /sushi/pools up to its await, or to the answer from the cache
SushiReceive(c) ==
  /\ sushi[c].pc = "idle"
  /\ \E query \in SushiQueries :
       sushi' = [sushi EXCEPT ![c] = sushiBeforeFetch(sushi[c], query, sushiCache, now)]
  /\ UNCHANGED <<RPC_URL, rpcId, h, now, sushiCache, news>>

\* GET /sushi/pools from the outcome of the subgraph call on
SushiReply(c) ==
  /\ sushi[c].pc = "awaitGraph"
  /\ \E outcome \in GraphOutcomes :
       LET next == sushiAfterFetch(sushi[c], outcome, sushiCache)
       IN /\ sushi' = [sushi EXCEPT ![c] = next.g]
          /\ sushiCache' = next.cache
  /\ UNCHANGED <<RPC_URL, rpcId, h, now, news>>

InitSushi ==
  /\ RPC_URL = ""
  /\ Started
  /\ h = [r \in Reqs |-> IdleRequest]

NextSushi ==
  \/ Tick
  \/ \E c \in SushiClients :
       \/ SushiReceive(c)
       \/ SushiReply(c)

SpecSushi == InitSushi /\ [][NextSushi]_vars

(* ------------------------------ the news ------------------------------ *)

\* the refreshes that may be waiting on their fetches at once
MaxRefreshing == 2

\* setInterval(refreshCryptoNews, NEWS_REFRESH_MS): a refresh starts its fetches
NewsRefreshStart ==
  /\ refreshing < MaxRefreshing
  /\ refreshing' = refreshing + 1
  /\ UNCHANGED <<RPC_URL, rpcId, h, pools, cryptoNewsCache, results, newsResps>>

\* refreshCryptoNews from the settling of its fetches on
NewsRefreshSettle ==
  /\ refreshing > 0
  /\ \E settled \in SettledResults :
       /\ cryptoNewsCache' = refreshCryptoNews(settled, now, cryptoNewsCache)
       /\ results' = [i \in 1..Len(settled) |-> settled[i].status]
  /\ refreshing' = refreshing - 1
  /\ UNCHANGED <<RPC_URL, rpcId, h, pools, newsResps>>

\* GET /api/crypto-news
NewsGet ==
  /\ newsResps' = <<cryptoNewsCache>>
  /\ UNCHANGED <<RPC_URL, rpcId, h, pools, cryptoNewsCache, refreshing, results>>

NextNews ==
  \/ NewsRefreshStart
  \/ NewsRefreshSettle
  \/ NewsGet

SpecNews == InitSushi /\ [][NextNews]_vars

(* ------------------------------- claims ------------------------------- *)

Handled(r) == h[r].pc # "idle"
Done(r) == h[r].pc = "done"
Response(r) == h[r].resps[1]
SwapOk(r) ==
  h[r].route = "swap" /\ Done(r) /\ Len(h[r].resps) = 1 /\ Response(r).status = 200

\* the transaction of the quote the aggregator returned, {} when it has none
UpstreamTx(r) ==
  LET text == h[r].reply.text
  IN IF text.form = "json" /\ text.json.transaction.t = "object"
     THEN text.json.transaction ELSE EmptyRawTx

IsLowerHexString(s) ==
  Len(s) > 0 /\ \A i \in 1..Len(s) : \E d \in 0..15 : CharAt(s, i) = CharAt(LowerHex, d + 1)

\* hex is "0x" and the base-16 numeral, without leading zeros, of the number
\* the decimal numeral dec denotes: its digits read back in base 10 are those
\* of dec
IsHexOf(hex, dec) ==
  /\ startsWith(hex, "0x")
  /\ LET digits == SubSeq(hex, 3, Len(hex))
     IN /\ IsLowerHexString(digits)
        /\ Len(digits) = 1 \/ CharAt(digits, 1) # "0"
        /\ Convert(StrDigits(digits), 16, 10) = StripZeros(StrDigits(dec))

NativeSale(r) == h[r].body.sellToken \in {ETH_SENTINEL, Str("ETH")}

\* C1: a /swap answered 200 whose sellToken is the native sentinel or "ETH"
\* returns tx.value = the hex numeral of the request's sellAmount (one ether
\* gives 0xde0b6b3a7640000), whatever value the quote's transaction carried.
C1_NativeValueIsSellAmount ==
  \A r \in Reqs :
    SwapOk(r) /\ NativeSale(r) =>
      /\ Response(r).tx.value.t = "string"
      /\ IsHexOf(Response(r).tx.value.v, String(h[r].body.sellAmount))
      /\ h[r].body.sellAmount = OneEther =>
           Response(r).tx.value = Str("0xde0b6b3a7640000")

\* a native sale of one ether answered 200 although the quote carried value 255
C1_Witness ==
  \E r \in Reqs :
    /\ SwapOk(r) /\ NativeSale(r)
    /\ h[r].body.sellAmount = OneEther
    /\ UpstreamTx(r).value = Str("255")
    /\ Response(r).tx.value = Str("0xde0b6b3a7640000")

\* C2: a /swap answered 200 whose sellToken is not the native asset returns
\* tx.value "0x0" when the quote's transaction has no value, the quote's value
\* unchanged when it is hex, and its hex numeral when it is a decimal string;
\* a nonzero sellAmount is tx.value only if the quote's value is that amount.
C2_TokenValueFromQuote ==
  \A r \in Reqs :
    SwapOk(r) /\ ~NativeSale(r) =>
      LET up == UpstreamTx(r).value
          value == Response(r).tx.value
      IN /\ IsNullish(up) => value = Str("0x0")
         /\ up.t = "string" /\ startsWith(up.v, "0x") => value = up
         /\ up.t = "string" /\ IsDecString(up.v) =>
              value.t = "string" /\ IsHexOf(value.v, up.v)
         /\ ( /\ value # Str("0x0")
              /\ IsDecString(String(h[r].body.sellAmount))
              /\ IsHexOf(value.v, String(h[r].body.sellAmount)) )
            => ( \/ up = value
                 \/ IsDecString(up.v) /\ IsHexOf(value.v, up.v) )

\* a token sale of one ether answered 200 with value 0x0, the quote having none
C2_Witness ==
  \E r \in Reqs :
    /\ SwapOk(r) /\ h[r].body.sellToken = USDC
    /\ h[r].body.sellAmount = OneEther
    /\ UpstreamTx(r).value = Undef
    /\ Response(r).tx.value = Str("0x0")

\* /^0x[a-fA-F0-9]{40}$/ on a string
MatchesAddressPattern(x) ==
  /\ x.t = "string"
  /\ Len(x.v) = 42
  /\ SubSeq(x.v, 1, 2) = "0x"
  /\ \A i \in 3..42 : IsHexChar(CharAt(x.v, i))

TokenOk(x) == x \in {ETH_SENTINEL, Str("ETH")} \/ MatchesAddressPattern(x)

\* a non-negative base-10 integer, as a string or as the number it prints as
AmountOk(x) == x.t \in {"string", "number"} /\ IsDecString(x.v)

\* the validation failures of the specification: a missing field, a malformed
\* address, an amount that is no base-10 integer
FailsValidation(route, b) ==
  \/ IsNullish(b.sellToken) \/ IsNullish(b.buyToken) \/ IsNullish(b.sellAmount)
  \/ route = "swap" /\ IsNullish(b.taker)
  \/ ~TokenOk(b.sellToken) \/ ~TokenOk(b.buyToken)
  \/ route = "swap" /\ ~MatchesAddressPattern(b.taker)
  \/ ~AmountOk(b.sellAmount)

NonEmptyString(x) == x.t = "string" /\ x.v # ""

\* C3: a /quote or /swap request that fails validation (a missing field,
\* taker included on /swap; a malformed address; a sellAmount that is no
\* base-10 integer) is answered 400 with a message, and no aggregator call and
\* no RPC call is issued for it.
C3_InvalidRejectedBeforeCalls ==
  \A r \in Reqs :
    Handled(r) /\ FailsValidation(h[r].route, h[r].body) =>
      /\ Done(r)
      /\ Response(r).status = 400
      /\ NonEmptyString(Response(r).message)
      /\ h[r].sent = <<>>
      /\ h[r].rpcs = <<>>

\* C4: on /quote and on /swap a request whose sellToken or buyToken is present
\* and is neither the sentinel, nor "ETH", nor a 20-byte hex address is
\* answered 400, and the token never appears in an aggregator call.
C4_MalformedTokenRejected ==
  \A r \in Reqs :
    /\ Handled(r)
    /\ \/ ~IsNullish(h[r].body.sellToken) /\ ~TokenOk(h[r].body.sellToken)
       \/ ~IsNullish(h[r].body.buyToken) /\ ~TokenOk(h[r].body.buyToken)
    => /\ Done(r)
       /\ Response(r).status = 400
       /\ h[r].sent = <<>>

Replied(r) == h[r].reply.kind # "none"
HttpOk(reply) == reply.kind = "http" /\ reply.status >= 200 /\ reply.status <= 299

\* the quote came back with a transaction that has to and data
WellFormedQuote(r) ==
  /\ HttpOk(h[r].reply)
  /\ ~IsNullish(UpstreamTx(r).to) /\ UpstreamTx(r).to # Str("")
  /\ ~IsNullish(UpstreamTx(r).data) /\ UpstreamTx(r).data # Str("")

HexQuantity(x) ==
  x.t = "string" /\ startsWith(x.v, "0x") /\ IsHexString(SubSeq(x.v, 3, Len(x.v)))

\* the node answered eth_estimateGas with an estimate
EstimateSucceeded(reply) == reply.kind = "result" /\ HexQuantity(reply.result)

\* the node answered eth_getBlockByNumber with a block whose base fee, if it
\* has one, is a quantity
BlockSucceeded(reply) ==
  /\ reply.kind = "result"
  /\ \/ reply.result = Null
     \/ reply.result.t = "object"
        /\ \/ IsNullish(reply.result.baseFeePerGas)
           \/ HexQuantity(reply.result.baseFeePerGas)

\* C5: with the RPC endpoint configured and a well-formed quote, a failure of
\* the gas estimate, of the fee suggestion or of both leaves /swap answering
\* 200 with a tx that has to, data and value; and either step runs and
\* contributes its fields whatever the other did.
C5_AugmentationIsBestEffort ==
  \A r \in Reqs :
    h[r].route = "swap" /\ RPC_URL # "" /\ Replied(r) /\ WellFormedQuote(r) =>
      /\ Len(h[r].rpcs) >= 1 /\ h[r].rpcs[1].method = "eth_estimateGas"
      /\ Len(h[r].got) >= 1 =>
           Len(h[r].rpcs) >= 2 /\ h[r].rpcs[2].method = "eth_getBlockByNumber"
      /\ Done(r) =>
           /\ Len(h[r].got) >= 2
           /\ Response(r).status = 200
           /\ Response(r).tx.to = UpstreamTx(r).to
           /\ Response(r).tx.data = UpstreamTx(r).data
           /\ NonEmptyString(Response(r).tx.value)
           /\ h[r].got[1] = Result(Str("0x5208")) =>
                Response(r).tx.gas = Str("0x6270")
           /\ BlockSucceeded(h[r].got[2]) =>
                /\ HexQuantity(Response(r).tx.maxFeePerGas)
                /\ HexQuantity(Response(r).tx.maxPriorityFeePerGas)

\* the estimate failed, the fee suggestion ran and gave its fields; and the
\* estimate gave its gas although the fee suggestion failed
C5_Witness ==
  \E r \in Reqs :
    /\ SwapOk(r) /\ Len(h[r].got) >= 2
    /\ \/ /\ ~EstimateSucceeded(h[r].got[1])
          /\ HexQuantity(Response(r).tx.maxFeePerGas)
          /\ Response(r).tx.gas = Undef
       \/ /\ EstimateSucceeded(h[r].got[1])
          /\ ~BlockSucceeded(h[r].got[2])
          /\ Response(r).tx.gas = Str("0x6270")
          /\ Response(r).tx.maxFeePerGas = Undef

\* every RPC call of the request returned an error
AllRpcFailed(r) ==
  /\ Len(h[r].got) >= 1
  /\ Len(h[r].got) = Len(h[r].rpcs)
  /\ \A i \in 1..Len(h[r].got) : h[r].got[i].kind # "result"

\* C6 as stated: when every RPC call of the request returns an error, /swap
\* answers 200 with a tx that lacks gas, maxFeePerGas and maxPriorityFeePerGas.
C6_Original ==
  \A r \in Reqs :
    h[r].route = "swap" /\ Done(r) /\ AllRpcFailed(r) =>
      /\ Response(r).status = 200
      /\ Response(r).tx.gas = Undef
      /\ Response(r).tx.maxFeePerGas = Undef
      /\ Response(r).tx.maxPriorityFeePerGas = Undef

\* C6 amended: when every RPC call of the request returns an error, /swap
\* answers 200 with a tx that lacks maxFeePerGas and maxPriorityFeePerGas, and
\* whose gas is the gas of the quote in hex (hex kept, decimal converted) when
\* the quote has one in hex or decimal form, and is absent otherwise.
C6_FailedRpcKeepsQuoteGas ==
  \A r \in Reqs :
    h[r].route = "swap" /\ Done(r) /\ AllRpcFailed(r) =>
      LET g == UpstreamTx(r).gas
          gas == Response(r).tx.gas
      IN /\ Response(r).status = 200
         /\ Response(r).tx.maxFeePerGas = Undef
         /\ Response(r).tx.maxPriorityFeePerGas = Undef
         /\ IsNullish(g) => gas = Undef
         /\ ~IsNullish(g) /\ startsWith(String(g), "0x") => gas = Str(String(g))
         /\ ~IsNullish(g) /\ IsDecString(String(g)) =>
              gas.t = "string" /\ IsHexOf(gas.v, String(g))
         /\ ~IsNullish(g) /\ ~startsWith(String(g), "0x") /\ ~IsDecString(String(g))
              => gas = Undef

\* every RPC call failed and the decimal gas of the quote came out in hex
C6_Witness ==
  \E r \in Reqs :
    /\ SwapOk(r) /\ AllRpcFailed(r)
    /\ UpstreamTx(r).gas = Str("21000")
    /\ Response(r).tx.gas = Str("0x5208")

\* the body of the aggregator's reply as parsed
ParsedBody(r) ==
  LET text == h[r].reply.text
  IN IF text.form = "json" THEN text.json
     ELSE IF text.form = "empty" THEN EmptyObject
     ELSE [EmptyObject EXCEPT !.raw = Str(text.raw)]

\* C7: when the firm quote succeeds but its transaction lacks to or lacks
\* data, /swap answers 500 with {message, raw}, issues no RPC call and calls
\* the aggregator once only.
C7_MalformedQuoteIsFatal ==
  \A r \in Reqs :
    /\ h[r].route = "swap" /\ Replied(r) /\ HttpOk(h[r].reply)
    /\ IsNullish(UpstreamTx(r).to) \/ IsNullish(UpstreamTx(r).data)
    => /\ Done(r)
       /\ Response(r).status = 500
       /\ NonEmptyString(Response(r).message)
       /\ Response(r).raw = ParsedBody(r)
       /\ Response(r).tx = Undef
       /\ h[r].rpcs = <<>>
       /\ rpcId = 1
       /\ Len(h[r].sent) = 1

\* a quote with to and without data was answered 500
C7_Witness ==
  \E r \in Reqs :
    /\ h[r].route = "swap" /\ Done(r) /\ HttpOk(h[r].reply)
    /\ UpstreamTx(r).to = Router /\ UpstreamTx(r).data = Undef
    /\ Response(r).status = 500
    /\ RPC_URL # ""

\* C8: when the aggregator answers a /quote or /swap call with a non-success
\* status S and a body with a message M, the response has status S, the
\* message M as it came and the parsed body as details; when the call fails
\* without a status, the response is 500.
C8_UpstreamErrorPropagated ==
  \A r \in Reqs :
    Replied(r) =>
      /\ /\ h[r].reply.kind = "http" /\ ~HttpOk(h[r].reply)
         /\ h[r].reply.text.form = "json"
         /\ NonEmptyString(h[r].reply.text.json.message)
         => /\ Done(r)
            /\ Len(h[r].resps) = 1
            /\ Response(r).status = h[r].reply.status
            /\ Response(r).message = h[r].reply.text.json.message
            /\ Response(r).details = h[r].reply.text.json
      /\ h[r].reply.kind = "neterr" =>
            /\ Done(r)
            /\ Len(h[r].resps) = 1
            /\ Response(r).status = 500
            /\ NonEmptyString(Response(r).message)

\* a 400 of the aggregator with "no Route matched" went out as it came, on
\* either route
C8_Witness ==
  \E r \in Reqs :
    /\ Done(r) /\ h[r].reply.kind = "http" /\ h[r].reply.status = 400
    /\ Response(r).status = 400
    /\ Response(r).message = Str("no Route matched")
    /\ Response(r).details.message = Str("no Route matched")

SharedParams ==
  {"chainId", "sellToken", "buyToken", "sellAmount", "slippageBps",
   "feeRecipient", "buyTokenPercentageFee"}

\* C9: for the same request body the query built by /quote and the one built
\* by /swap carry the same chainId, sellToken, buyToken, sellAmount,
\* slippageBps, feeRecipient and buyTokenPercentageFee; they differ at most in
\* intentOnFilling, set on /swap only, and in taker.
\* (Looked at while the query is in flight: sent and body stay as they are from
\* there on.)
C9_SameQueryOnBothRoutes ==
  \A r \in Reqs :
    h[r].pc = "await0x" /\ h[r].sent # <<>> =>
      \A t \in Takers :
        LET b == [h[r].body EXCEPT !.taker = t]
            mine == h[r].sent[1].params
            onQuote == h[r].route = "quote"
            passes == IF onQuote THEN swapValidation(b) = ""
                      ELSE quoteValidation(b) = ""
            other == IF onQuote THEN swapParams(b) ELSE quoteParams(b)
            ofQuote == IF onQuote THEN mine ELSE other
            ofSwap == IF onQuote THEN other ELSE mine
        IN passes =>
             /\ \A k \in SharedParams : ofQuote[k] = ofSwap[k]
             /\ DOMAIN ofQuote = DOMAIN ofSwap
             /\ DOMAIN ofQuote \ SharedParams = {"taker", "intentOnFilling"}
             /\ ofQuote.intentOnFilling = Undef
             /\ ofSwap.intentOnFilling = Str("true")
             /\ ofQuote.feeRecipient = FEE_RECIPIENT

\* a /quote selling "ETH" went to the aggregator, and the same body passes on
\* /swap
C9_Witness ==
  \E r \in Reqs :
    /\ h[r].route = "quote" /\ h[r].pc = "await0x" /\ h[r].sent # <<>>
    /\ h[r].body.sellToken = Str("ETH")
    /\ h[r].sent[1].params.sellToken = ETH_SENTINEL
    /\ swapValidation([h[r].body EXCEPT !.taker = Wallet]) = ""

IsPrefix(s, t) == Len(s) <= Len(t) /\ SubSeq(t, 1, Len(s)) = s

\* the orders of steps a request may run through
Orders(route) ==
  IF route = "quote"
  THEN {<<"Validating", "Responding">>,
        <<"Validating", "Pricing", "Responding">>}
  ELSE {<<"Validating", "Responding">>,
        <<"Validating", "Quoting", "Responding">>,
        <<"Validating", "Quoting", "BuildingTx", "Responding">>,
        <<"Validating", "Quoting", "BuildingTx", "Estimating", "Responding">>}

Ran(r, name) == \E i \in 1..Len(h[r].steps) : h[r].steps[i] = name

\* C10: a handled request runs Validating, then Pricing (/quote) or Quoting
\* (/swap), then on /swap only BuildingTx and possibly Estimating, then
\* Responding; /quote builds no transaction and makes no RPC call; no RPC call
\* goes out before the quote came back with to and data; a failure of
\* Validating, Pricing, Quoting or BuildingTx is answered at once with an error
\* and no later step; and a request is answered exactly once.
C10_RequestStateMachine ==
  \A r \in Reqs :
    Handled(r) =>
      /\ \E o \in Orders(h[r].route) : IsPrefix(h[r].steps, o)
      /\ Done(r) <=> h[r].steps \in Orders(h[r].route)
      /\ Done(r) <=> Len(h[r].resps) = 1
      /\ Len(h[r].resps) <= 1
      /\ Len(h[r].sent) <= 1
      /\ h[r].sent # <<>> <=> Ran(r, "Pricing") \/ Ran(r, "Quoting")
      /\ h[r].rpcs # <<>> <=> Ran(r, "Estimating")
      /\ h[r].route = "quote" =>
           h[r].rpcs = <<>> /\ h[r].tx = EmptyTx /\ ~Ran(r, "BuildingTx")
      /\ h[r].rpcs # <<>> \/ h[r].tx # EmptyTx =>
           /\ Replied(r) /\ HttpOk(h[r].reply)
           /\ ~Falsy(UpstreamTx(r).to) /\ ~Falsy(UpstreamTx(r).data)
      /\ Done(r) /\ h[r].sent = <<>> =>
           /\ Response(r).status = 400
           /\ h[r].steps = <<"Validating", "Responding">>
      /\ Replied(r) /\ ~HttpOk(h[r].reply) =>
           /\ Done(r) /\ Response(r).status >= 400
           /\ Len(h[r].steps) = 3
           /\ h[r].rpcs = <<>>
      /\ /\ h[r].route = "swap" /\ Replied(r) /\ HttpOk(h[r].reply)
         /\ Falsy(UpstreamTx(r).to) \/ Falsy(UpstreamTx(r).data)
         => /\ Done(r) /\ Response(r).status = 500
            /\ h[r].steps = <<"Validating", "Quoting", "BuildingTx", "Responding">>
            /\ h[r].rpcs = <<>>

\* a /swap went through all five steps and was answered once
C10_Witness ==
  \E r \in Reqs :
    /\ h[r].steps =
         <<"Validating", "Quoting", "BuildingTx", "Estimating", "Responding">>
    /\ Len(h[r].rpcs) = 3
    /\ Len(h[r].resps) = 1
    /\ Response(r).status = 200

\* the calls sent to the node so far, as <<request, position>>
Issued == UNION {{<<r, i>> : i \in 1..Len(h[r].rpcs)} : r \in DOMAIN h}

IdOf(c) == h[c[1]].rpcs[c[2]].id

UniqueIds ==
  /\ \A c \in Issued : \A d \in Issued : c # d => IdOf(c) # IdOf(d)
  /\ \A c \in Issued : IdOf(c) >= 1 /\ IdOf(c) < rpcId

\* a call issued in this step has an id above every id issued before
IssuedInOrder ==
  \A r \in DOMAIN h :
    Len(h'[r].rpcs) > Len(h[r].rpcs) =>
      /\ Len(h'[r].rpcs) = Len(h[r].rpcs) + 1
      /\ SubSeq(h'[r].rpcs, 1, Len(h[r].rpcs)) = h[r].rpcs
      /\ \A c \in Issued : IdOf(c) < h'[r].rpcs[Len(h'[r].rpcs)].id

\* C11: under any interleaving of concurrent /swap requests every JSON-RPC
\* call carries an id no other call of the process has used, and the ids
\* increase strictly in the order in which the calls are issued.
C11_RpcIdsUniqueAndIncreasing == []UniqueIds /\ [][IssuedInOrder]_vars

\* the calls of two requests interleave: ids 1 and 3 on one, 2 on the other
C11_Witness ==
  \E r1 \in DOMAIN h : \E r2 \in DOMAIN h :
    /\ r1 # r2
    /\ Len(h[r1].rpcs) >= 2 /\ Len(h[r2].rpcs) >= 1
    /\ h[r1].rpcs[1].id = 1 /\ h[r2].rpcs[1].id = 2 /\ h[r1].rpcs[2].id = 3

RpcMethods == {"eth_estimateGas", "eth_getBlockByNumber", "eth_maxPriorityFeePerGas"}

CallsOf(r, method) == {i \in 1..Len(h[r].rpcs) : h[r].rpcs[i].method = method}

\* C12: nothing is retried: while one request is handled the aggregator is
\* called at most once, and eth_estimateGas, eth_getBlockByNumber and
\* eth_maxPriorityFeePerGas at most once each, whatever the calls return.
C12_NoRetry ==
  \A r \in Reqs :
    /\ Len(h[r].sent) <= 1
    /\ \A method \in RpcMethods : Cardinality(CallsOf(r, method)) <= 1
    /\ \A i \in 1..Len(h[r].rpcs) : h[r].rpcs[i].method \in RpcMethods
    /\ Len(h[r].got) <= Len(h[r].rpcs)

\* a request whose estimate and whose tip call failed made each of the three
\* calls, and the aggregator call, once
C12_Witness ==
  \E r \in Reqs :
    /\ Done(r) /\ Len(h[r].sent) = 1
    /\ Len(h[r].got) = 3 /\ Len(h[r].rpcs) = 3
    /\ h[r].got[1].kind # "result" /\ h[r].got[3].kind # "result"
    /\ \A method \in RpcMethods : Cardinality(CallsOf(r, method)) = 1

\* the number a short hex quantity "0x..." denotes
RECURSIVE HexNatOf(_, _)
HexNatOf(s, n) == IF n = 0 THEN 0 ELSE 16 * HexNatOf(s, n - 1) + HexValue(CharAt(s, n))

HexNat(x) == HexNatOf(SubSeq(x, 3, Len(x)), Len(x) - 2)

\* a hex quantity of at most k digits
ShortQuantity(x, k) == HexQuantity(x) /\ Len(x.v) <= k + 2

\* "0x" and lower-case hex digits without leading zeros
CanonicalHex(x) ==
  /\ x.t = "string" /\ startsWith(x.v, "0x")
  /\ IsLowerHexString(SubSeq(x.v, 3, Len(x.v)))
  /\ Len(x.v) = 3 \/ CharAt(x.v, 3) # "0"

\* g + floor(g / 5) for an estimate beyond the integers at hand
BufferedOfLarge == [g \in {"0xffffffffffffffff"} |-> "0x13333333333333332"]

\* C13: when eth_estimateGas succeeds with estimate g during /swap, tx.gas of
\* the response is the hex of g + floor(g / 5), whatever gas the quote carried.
C13_GasIsBufferedEstimate ==
  \A r \in Reqs :
    h[r].route = "swap" /\ Len(h[r].got) >= 1 /\ EstimateSucceeded(h[r].got[1]) =>
      LET g == h[r].got[1].result
          gas == h[r].tx.gas
      IN /\ CanonicalHex(gas)
         /\ ShortQuantity(g, 8) =>
              HexNat(gas.v) = HexNat(g.v) + (HexNat(g.v) \div 5)
         /\ g.v \in DOMAIN BufferedOfLarge => gas.v = BufferedOfLarge[g.v]
         /\ Done(r) => Response(r).status = 200 /\ Response(r).tx.gas = gas

\* an estimate of 7 went out as 8 in place of the 21000 of the quote
C13_Witness ==
  \E r \in Reqs :
    /\ SwapOk(r)
    /\ UpstreamTx(r).gas = Str("21000")
    /\ h[r].got[1] = Result(Str("0x7"))
    /\ Response(r).tx.gas = Str("0x8")

\* the order of two canonical hex quantities, read off their numerals
HexGeq(a, b) ==
  \/ Len(a) > Len(b)
  \/ /\ Len(a) = Len(b)
     /\ \/ a = b
        \/ \E i \in 3..Len(a) :
             /\ SubSeq(a, 1, i - 1) = SubSeq(b, 1, i - 1)
             /\ HexValue(CharAt(a, i)) > HexValue(CharAt(b, i))

\* 2 * baseFee + tip for a base fee of 30 gwei, beyond the integers at hand
MaxFeeOfLarge ==
  [tip \in {"0x59682f00", "0x0", "0x5f5e100", "0x77359400"} |->
     CASE tip = "0x59682f00" -> "0xe51af8700"
       [] tip = "0x0" -> "0xdf8475800"
       [] tip = "0x5f5e100" -> "0xdfe3d3900"
       [] OTHER -> "0xe6f7cec00"]

\* the base fee of the block the node answered with, "0x0" when it has none
BaseFeeOf(reply) ==
  IF reply.result = Null \/ IsNullish(reply.result.baseFeePerGas) THEN "0x0"
  ELSE reply.result.baseFeePerGas.v

\* C14: when the fee suggestion succeeds during /swap, maxPriorityFeePerGas is
\* the tip and maxFeePerGas is 2 * baseFee + tip, where baseFee is the base fee
\* of the latest block (0 when it has none) and tip is the result of
\* eth_maxPriorityFeePerGas, or 1500000000 wei when that call fails; so
\* maxFeePerGas >= maxPriorityFeePerGas in every response that has them.
C14_FeesFromBaseFeeAndTip ==
  \A r \in Reqs :
    /\ h[r].route = "swap" /\ Done(r) /\ Len(h[r].got) >= 2
       /\ BlockSucceeded(h[r].got[2])
       => /\ Len(h[r].got) = 3
          /\ Response(r).status = 200
          /\ LET base == BaseFeeOf(h[r].got[2])
                 tip == h[r].got[3]
                 tipOk == tip.kind = "result" /\ HexQuantity(tip.result)
                 prio == Response(r).tx.maxPriorityFeePerGas
                 max == Response(r).tx.maxFeePerGas
             IN /\ CanonicalHex(prio) /\ CanonicalHex(max)
                /\ tipOk => HexNat(prio.v) = HexNat(tip.result.v)
                /\ ~tipOk => HexNat(prio.v) = 1500000000
                /\ Len(base) <= 8 =>
                     HexNat(max.v) = 2 * HexNat(base) + HexNat(prio.v)
                /\ base = "0x6fc23ac00" => max.v = MaxFeeOfLarge[prio.v]
    /\ Done(r) /\ Response(r).tx # Undef /\ Response(r).tx.maxFeePerGas # Undef =>
         HexGeq(Response(r).tx.maxFeePerGas.v, Response(r).tx.maxPriorityFeePerGas.v)

\* a base fee of 3906250 wei and a failed tip call gave the tip of 1.5 gwei and
\* a max fee of 1507812500 wei
C14_Witness ==
  \E r \in Reqs :
    /\ SwapOk(r) /\ Len(h[r].got) = 3
    /\ h[r].got[2] = Result(Block(Str("0x3b9aca")))
    /\ h[r].got[3] = RpcError
    /\ Response(r).tx.maxPriorityFeePerGas = Str("0x59682f00")
    /\ Response(r).tx.maxFeePerGas = Str("0x59df6494")

\* the number a short decimal numeral denotes
RECURSIVE DecNatOf(_, _)
DecNatOf(s, n) ==
  IF n = 0 THEN 0
  ELSE 10 * DecNatOf(s, n - 1)
       + (CHOOSE d \in 0..9 : CharAt(s, n) = CharAt("0123456789", d + 1))

DecNat(s) == DecNatOf(s, Len(s))

\* C15: for every request that reaches the aggregator the slippageBps sent is
\* round(clamp(f, 0, 0.2) * 10000) for the slippage fraction f of the request,
\* so it lies in 0..2000: 0.02 gives 200, anything above 0.2 gives 2000,
\* anything negative gives 0, and an absent or non-numeric slippage gives 200.
\* (The fraction is at hand in units of 1/100000, so a basis point is 10 units.)
C15_SlippageBps ==
  \A r \in Reqs :
    h[r].sent # <<>> =>
      LET f == h[r].body.slippagePercentage
          sentBps == h[r].sent[1].params.slippageBps
          bps == DecNat(sentBps.v)
      IN /\ sentBps.t = "string" /\ IsDecString(sentBps.v)
         /\ Len(sentBps.v) = 1 \/ CharAt(sentBps.v, 1) # "0"
         /\ bps >= 0 /\ bps <= 2000
         /\ f.t # "number" => bps = 200
         /\ f.t = "number" /\ f.n < 0 => bps = 0
         /\ f.t = "number" /\ f.n > 20000 => bps = 2000
         /\ f.t = "number" /\ f.n >= 0 /\ f.n <= 20000 =>
              10 * bps - f.n < 5 /\ f.n - 10 * bps < 5
         /\ f = Num("0.02", 2000) => sentBps.v = "200"
         /\ f = Num("0.5", 50000) => sentBps.v = "2000"
         /\ f = Num("-1", -100000) => sentBps.v = "0"

\* a slippage of 0.5 went to the aggregator as 2000 basis points, and one of
\* 0.00016 as 2
C15_Witness ==
  \E r \in Reqs :
    /\ h[r].pc = "await0x"
    /\ \/ /\ h[r].body.slippagePercentage = Num("0.5", 50000)
          /\ h[r].sent[1].params.slippageBps = Str("2000")
       \/ /\ h[r].body.slippagePercentage = Num("0.00016", 16)
          /\ h[r].sent[1].params.slippageBps = Str("2")

\* C16: when no node RPC URL is configured, /swap issues no RPC call, still
\* answers 200 for a well-formed quote, and its tx has neither maxFeePerGas nor
\* maxPriorityFeePerGas; its gas, when it has one, is the gas of the quote
\* normalized to hex.
C16_NoRpcUrlNoRpcCall ==
  \A r \in Reqs :
    RPC_URL = "" /\ h[r].route = "swap" =>
      /\ h[r].rpcs = <<>> /\ h[r].got = <<>>
      /\ rpcId = 1
      /\ Replied(r) /\ WellFormedQuote(r) =>
           LET g == UpstreamTx(r).gas
               gas == Response(r).tx.gas
           IN /\ Done(r)
              /\ Response(r).status = 200
              /\ Response(r).tx.to = UpstreamTx(r).to
              /\ Response(r).tx.data = UpstreamTx(r).data
              /\ Response(r).tx.maxFeePerGas = Undef
              /\ Response(r).tx.maxPriorityFeePerGas = Undef
              /\ gas # Undef =>
                   /\ ~IsNullish(g)
                   /\ \/ startsWith(String(g), "0x") /\ gas = Str(String(g))
                      \/ /\ IsDecString(String(g))
                         /\ gas.t = "string" /\ IsHexOf(gas.v, String(g))

\* without an endpoint a quote with gas 21000 was answered with gas 0x5208 and
\* no fee fields
C16_Witness ==
  \E r \in Reqs :
    /\ RPC_URL = "" /\ SwapOk(r)
    /\ UpstreamTx(r).gas = Str("21000")
    /\ Response(r).tx.gas = Str("0x5208")
    /\ Response(r).tx.maxFeePerGas = Undef

\* The handler run on its own from a fresh process: the body, then the reply
\* of the aggregator, then the replies of the node, as far as they have come.
SoloRun(route, b, reply, got, url) ==
  LET s1 == IF route = "quote" THEN quoteBeforePrice(IdleRequest, b)
            ELSE swapBeforeQuote(IdleRequest, b)
      s2 == IF s1.pc # "await0x" \/ reply = NoReply THEN s1
            ELSE IF route = "quote" THEN quoteAfterPrice(s1, reply)
            ELSE swapAfterQuote(s1, reply, url, 1).q
      s3 == IF s2.pc = "awaitEstimate" /\ Len(got) >= 1
            THEN swapAfterEstimate(s2, got[1], 2) ELSE s2
      s4 == IF s3.pc = "awaitBlock" /\ Len(got) >= 2
            THEN swapAfterBlock(s3, got[2], 3).q ELSE s3
  IN IF s4.pc = "awaitTip" /\ Len(got) >= 3 THEN swapAfterTip(s4, got[3]) ELSE s4

MethodsOf(q) == [i \in 1..Len(q.rpcs) |-> q.rpcs[i].method]

\* C17: apart from the RPC id counter, /quote and /swap requests share no
\* mutable state: what a request answers, and what it has sent and built so
\* far, is what the handler gives on its own for the body of the request and the
\* replies to its own calls, under every interleaving with another request.
C17_RequestsDoNotInterfere ==
  \A r \in DOMAIN h :
    Handled(r) =>
      LET solo == SoloRun(h[r].route, h[r].body, h[r].reply, h[r].got, RPC_URL)
      IN /\ h[r].resps = solo.resps
         /\ h[r].pc = solo.pc
         /\ h[r].tx = solo.tx
         /\ h[r].sent = solo.sent
         /\ h[r].steps = solo.steps
         /\ MethodsOf(h[r]) = MethodsOf(solo)

\* two /swap requests whose RPC calls interleaved were both answered, one with
\* the fee fields and one without
C17_Witness ==
  \E r1 \in DOMAIN h : \E r2 \in DOMAIN h :
    /\ r1 # r2 /\ SwapOk(r1) /\ SwapOk(r2)
    /\ Len(h[r1].rpcs) = 3 /\ Len(h[r2].rpcs) = 2
    /\ h[r1].rpcs[1].id < h[r2].rpcs[1].id
    /\ h[r2].rpcs[1].id < h[r1].rpcs[2].id
    /\ h[r1].rpcs[2].id < h[r2].rpcs[2].id
    /\ Response(r1).tx.maxFeePerGas # Undef
    /\ Response(r2).tx.maxFeePerGas = Undef

\* the hex numerals of the amounts beyond the integers at hand
BigHexOf ==
  [s \in {"1000000000000000000",
         "2147483648",
         "4294967296",
         "18446744073709551615",
         "18446744073709551616",
         "340282366920938463463374607431768211456",
         "115792089237316195423570985008687907853269984665640564039457584007913129639935",
         "0000000000000000000001000000000000000000000000"} |->
     CASE s = "1000000000000000000" ->
            "0xde0b6b3a7640000"
       [] s = "2147483648" ->
            "0x80000000"
       [] s = "4294967296" ->
            "0x100000000"
       [] s = "18446744073709551615" ->
            "0xffffffffffffffff"
       [] s = "18446744073709551616" ->
            "0x10000000000000000"
       [] s = "340282366920938463463374607431768211456" ->
            "0x100000000000000000000000000000000"
       [] s = "115792089237316195423570985008687907853269984665640564039457584007913129639935" ->
            "0xffffffffffffffffffffffffffffffffffffffffffffffffffffffffffffffff"
       [] OTHER ->
            "0xd3c21bcecceda1000000"]

\* hex is the hex numeral of the number the decimal numeral dec denotes, and
\* read back it gives that number
ConvertsAndBack(dec, hex) ==
  /\ CanonicalHex(hex)
  /\ Len(dec) <= 9 => HexNat(hex.v) = DecNat(dec)
  /\ dec \in DOMAIN BigHexOf => hex.v = BigHexOf[dec]
  /\ LET back == bnFromHex(hex)
     IN /\ back.ok /\ ~back.val.neg
        /\ Convert(back.val.mag, 16, 10) = StripZeros(StrDigits(dec))
        /\ back.val = BigIntOf(Str(dec)).val

\* C18: for every non-negative base-10 integer string s, up to the 256-bit
\* range, the conversion used for value and gas gives "0x" and the hex digits
\* of the number s denotes, and that hex string parsed back gives the same
\* number.
C18_DecimalToHexRoundTrip ==
  \A r \in Reqs :
    SwapOk(r) =>
      /\ ConvertsAndBack(h[r].body.sellAmount.v, Response(r).tx.value)
      /\ ConvertsAndBack(UpstreamTx(r).gas.v, Response(r).tx.gas)

\* 2^256 - 1 wei went out as 64 hex digits f, with a gas of 2^64
C18_Witness ==
  \E r \in Reqs :
    /\ SwapOk(r)
    /\ h[r].body.sellAmount = Str("115792089237316195423570985008687907853269984665640564039457584007913129639935")
    /\ Response(r).tx.value = Str("0xffffffffffffffffffffffffffffffffffffffffffffffffffffffffffffffff")
    /\ Response(r).tx.gas = Str("0x10000000000000000")

EstimateFailed(r) == Len(h[r].got) >= 1 /\ ~EstimateSucceeded(h[r].got[1])

\* C19: when the gas estimate fails during /swap and the quote carried a gas in
\* hex or decimal form, tx.gas of the response is that gas in hex (hex kept as
\* it is, decimal converted); tx.gas is absent only when no estimate came and
\* the gas of the quote was absent or neither hex nor decimal.
C19_QuoteGasSurvivesFailedEstimate ==
  \A r \in Reqs :
    SwapOk(r) =>
      LET g == UpstreamTx(r).gas
          gas == Response(r).tx.gas
          unusable == \/ IsNullish(g)
                      \/ ~startsWith(String(g), "0x") /\ ~IsDecString(String(g))
      IN /\ EstimateFailed(r) /\ HexQuantity(g) => gas = g
         /\ EstimateFailed(r) /\ ~IsNullish(g) /\ IsDecString(String(g)) =>
              CanonicalHex(gas) /\ HexNat(gas.v) = DecNat(String(g))
         /\ EstimateFailed(r) /\ unusable => gas = Undef
         /\ gas = Undef =>
              /\ unusable
              /\ h[r].got = <<>> \/ EstimateFailed(r)

\* the estimate failed, the fee suggestion did not, and the gas 21000 of the
\* quote went out as 0x5208
C19_Witness ==
  \E r \in Reqs :
    /\ SwapOk(r) /\ EstimateFailed(r)
    /\ UpstreamTx(r).gas = Str("21000")
    /\ Response(r).tx.gas = Str("0x5208")
    /\ Response(r).tx.maxFeePerGas # Undef

\* the block step of the fee suggestion threw: the call failed, or the block
\* that came has a base fee that is no quantity
BlockFailed(r) == Len(h[r].got) >= 2 /\ ~BlockSucceeded(h[r].got[2])

\* C20: in every /swap response with a tx, maxFeePerGas and
\* maxPriorityFeePerGas are both there or both absent; they are absent exactly
\* when no RPC URL is configured or eth_getBlockByNumber failed; and in a
\* request whose eth_getBlockByNumber failed eth_maxPriorityFeePerGas is never
\* called.
C20_FeeFieldsTogether ==
  \A r \in Reqs :
    h[r].route = "swap" =>
      /\ h[r].tx.maxFeePerGas = Undef <=> h[r].tx.maxPriorityFeePerGas = Undef
      /\ SwapOk(r) =>
           /\ Response(r).tx.maxFeePerGas = Undef
                <=> Response(r).tx.maxPriorityFeePerGas = Undef
           /\ Response(r).tx.maxFeePerGas = Undef
                <=> (RPC_URL = "" \/ BlockFailed(r))
      /\ BlockFailed(r) =>
           /\ Done(r)
           /\ CallsOf(r, "eth_maxPriorityFeePerGas") = {}
           /\ Len(h[r].rpcs) = 2

\* the block call failed after a good estimate: the response has the gas and
\* neither fee field, and the tip was not asked for
C20_Witness ==
  \E r \in Reqs :
    /\ SwapOk(r) /\ RPC_URL # "" /\ BlockFailed(r)
    /\ h[r].got[2] = RpcError
    /\ Response(r).tx.gas = Str("0x6270")
    /\ Response(r).tx.maxFeePerGas = Undef
    /\ Response(r).tx.maxPriorityFeePerGas = Undef
    /\ Len(h[r].rpcs) = 2


(* C21 *)

\* the request is between an await and its continuation
Waiting(r) == h[r].pc \in {"await0x", "awaitEstimate", "awaitBlock", "awaitTip"}

\* the call the request waits on has been issued and has not come back
PendingCall(r) ==
  \/ /\ h[r].pc = "await0x"
     /\ Len(h[r].sent) = 1
     /\ h[r].reply.kind = "none"
  \/ /\ h[r].pc \in {"awaitEstimate", "awaitBlock", "awaitTip"}
     /\ Len(h[r].rpcs) = Len(h[r].got) + 1
     /\ h[r].rpcs[Len(h[r].rpcs)].method =
          CASE h[r].pc = "awaitEstimate" -> "eth_estimateGas"
            [] h[r].pc = "awaitBlock" -> "eth_getBlockByNumber"
            [] h[r].pc = "awaitTip" -> "eth_maxPriorityFeePerGas"

\* a request is not yet in, or answered, or waiting on a call that is pending
NoneLeftWaiting ==
  \A r \in DOMAIN h :
    \/ h[r].pc = "idle"
    \/ Done(r) /\ Len(h[r].resps) = 1
    \/ Waiting(r) /\ PendingCall(r) /\ h[r].resps = <<>>

\* C21: every request of /quote or /swap that came in is answered in the end,
\* given that each call to the aggregator and to the node comes back; and in no
\* state is a request left unanswered without a call of its own still pending.
C21_EveryRequestAnswered ==
  /\ []NoneLeftWaiting
  /\ \A r \in Clients : Handled(r) ~> Done(r)

\* both clients answered, one after the three node calls, one after the
\* aggregator call alone
C21_Witness ==
  /\ \A r \in DOMAIN h : Done(r)
  /\ \E r \in DOMAIN h : Len(h[r].got) = 3 /\ SwapOk(r)
  /\ \E r \in DOMAIN h : Len(h[r].sent) = 1 /\ h[r].rpcs = <<>>


(* C22 *)

\* the sellToken of the request is the native sentinel up to the case of its
\* letters
NativeUpToCase(r) ==
  /\ h[r].body.sellToken.t = "string"
  /\ toLowerCase(h[r].body.sellToken.v) = toLowerCase(ETH_SENTINEL.v)

\* C22: a /swap answered 200 whose sellToken is the native sentinel in any
\* letter case returns tx.value = the hex numeral of the request's sellAmount,
\* as it does for the sentinel in its mixed-case form.
C22_NativeSaleInAnyCase ==
  \A r \in Reqs :
    SwapOk(r) /\ NativeUpToCase(r) =>
      /\ Response(r).tx.value.t = "string"
      /\ IsHexOf(Response(r).tx.value.v, String(h[r].body.sellAmount))


(* C23 *)

\* C23: in every 200 response of /swap, tx.value is "0x" followed by at least
\* one hex digit, and so is tx.gas when the response has one, whatever value and
\* gas the transaction of the quote carried.
C23_QuantitiesWellFormed ==
  \A r \in Reqs :
    SwapOk(r) =>
      /\ HexQuantity(Response(r).tx.value)
      /\ Response(r).tx.gas # Undef => HexQuantity(Response(r).tx.gas)


(* C24 *)

\* the chain|limit key of each query of the clients
KeyOf(query) ==
  CASE query = [chain |-> Undef, limit |-> Undef] -> "ethereum|5"
    [] query = [chain |-> Str("Ethereum"), limit |-> Str("5")] -> "ethereum|5"
    [] query = [chain |-> Undef, limit |-> Str("50")] -> "ethereum|10"

\* the entry of the key is there and less than 60 seconds old
Young(entry) == entry # NoEntry /\ now - entry.ts < 60000

\* client c is answered in this step
Answered(c) == sushi[c].resps = <<>> /\ sushi'[c].resps # <<>>

\* an answer marked cached comes without a call, from the entry of the key of
\* the request as it is before the step, and that entry is young
CachedAnswerIsYoung(c) ==
  Answered(c) /\ sushi'[c].resps[1].cached = Bool(TRUE) =>
    LET entry == sushiCache[KeyOf(sushi'[c].query)]
    IN /\ Len(sushi'[c].resps) = 1
       /\ sushi[c].pc = "idle"
       /\ sushi'[c].calls = 0
       /\ sushi'[c].got = ""
       /\ Young(entry)
       /\ sushi'[c].resps[1].ok = Bool(TRUE)
       /\ sushi'[c].resps[1].items = entry.data
       /\ sushiCache' = sushiCache

\* a request that comes in and finds no young entry calls the subgraph
MissCallsUpstream(c) ==
  sushi[c].pc = "idle" /\ sushi'[c].pc # "idle"
    /\ ~Young(sushiCache[KeyOf(sushi'[c].query)]) =>
      /\ sushi'[c].pc = "awaitGraph"
      /\ sushi'[c].calls = 1
      /\ sushi'[c].resps = <<>>

\* a call that fails is answered 200, ok false, with the five placeholders, and
\* the cache stays as it is
FailureLeavesCache(c) ==
  sushi[c].pc = "awaitGraph" /\ sushi'[c].got = "error" =>
    /\ sushi[c].calls = 1
    /\ Answered(c)
    /\ sushi'[c].resps[1].status = 200
    /\ sushi'[c].resps[1].ok = Bool(FALSE)
    /\ sushi'[c].resps[1].items = Placeholders
    /\ Len(sushi'[c].resps[1].items) = 5
    /\ sushiCache' = sushiCache

\* C24: whatever the interleaving of the GET /sushi/pools requests, an answer
\* marked cached:true is given without a call of the subgraph and from the
\* entry of the same chain|limit key, whose timestamp is less than 60 seconds
\* old; a request that finds no entry or an expired one calls the subgraph; and
\* a failed call is answered 200 with ok:false and the five placeholder pools
\* and leaves the cache as it was.
C24_CacheServesYoungEntries ==
  [][\A c \in SushiClients :
       CachedAnswerIsYoung(c) /\ MissCallsUpstream(c) /\ FailureLeavesCache(c)]_vars

\* one client answered by the subgraph, another from the entry this left, 30
\* seconds old, and the third, which came when the entry had expired, answered
\* with the placeholders after a failed call, the entry still in the cache
C24_Witness ==
  \E c1, c2, c3 \in SushiClients :
    /\ sushi[c1].pc = "done" /\ sushi[c1].got = "pools"
    /\ sushi[c2].pc = "done" /\ sushi[c2].resps[1].cached = Bool(TRUE)
    /\ sushi[c2].now = sushi[c1].now + 30000
    /\ sushi[c2].resps[1].items = sushi[c1].resps[1].items
    /\ sushi[c3].pc = "done" /\ sushi[c3].got = "error"
    /\ sushi[c3].now = sushi[c1].now + 60000
    /\ sushi[c3].cacheKey = sushi[c1].cacheKey /\ sushi[c2].cacheKey = sushi[c1].cacheKey
    /\ sushiCache[sushi[c1].cacheKey] =
         [ts |-> sushi[c1].now, data |-> sushi[c1].resps[1].items]


(* C25 *)

\* the two texts are equal but for the case of their letters
SameIgnoringCase(a, b) ==
  Len(a) = Len(b) /\ \A i \in 1..Len(a) : LowerChar(CharAt(a, i)) = LowerChar(CharAt(b, i))

NewsItemsOk(items) ==
  /\ Len(items) <= 5
  /\ \A i \in 1..Len(items) : items[i].title # ""
  /\ \A i, j \in 1..Len(items) :
       i # j => ~SameIgnoringCase(items[i].title, items[j].title)

\* C25: after any refreshes of the news, whichever feeds failed, the cache, and
\* so the body GET /api/crypto-news answers with, holds at most 5 items, every
\* item has a title that is not empty, and no two titles are equal ignoring the
\* case of their letters.
C25_NewsItemsBounded ==
  /\ NewsItemsOk(cryptoNewsCache.items)
  /\ \A i \in 1..Len(newsResps) : NewsItemsOk(newsResps[i].items)

\* a refresh with one feed down and the others offering nine titled items,
\* three of them repeating a title in another case, left five items, and GET
\* answered with them
C25_Witness ==
  /\ results = <<"fulfilled", "fulfilled", "fulfilled", "fulfilled", "rejected">>
  /\ Len(cryptoNewsCache.items) = 5
  /\ newsResps = <<cryptoNewsCache>>
  /\ \E i \in 1..5 : cryptoNewsCache.items[i].title = "Ether & gas"

(* C26 *)

\* a refresh settles in this step, every one of its fetches having failed
SettlesWithNothing ==
  /\ refreshing' = refreshing - 1
  /\ results' = [i \in 1..Len(NEWS_SOURCES) |-> "rejected"]

\* C26: a refresh of the news whose every fetch fails keeps the items that were
\* in the cache, so that GET /api/crypto-news goes on answering with the items
\* of the last refresh that obtained some.
C26_FailedRefreshKeepsItems ==
  [][SettlesWithNothing => cryptoNewsCache'.items = cryptoNewsCache.items]_vars

=============================================================================
